---- MODULE Spec2Model ----
(***************************************************************************)
(* Dynamic Tool Execution & Orchestration Engine (fjfletch/piraeus).       *)
(*                                                                         *)
(* The module holds four state machines over one set of variables:         *)
(*   Spec          ToolRegistry + ToolExecutor                             *)
(*   SpecHttp      HTTPClientService (tenacity retry around one request)   *)
(*   SpecWorkflow  WorkflowOrchestrator.execute_workflow                   *)
(*   SpecTransform GenericApiTool._transform_response                      *)
(*                                                                         *)
(* Python strings whose emptiness matters (error messages) are sequences   *)
(* of non-empty chunks, so that the empty string is <<>>.                  *)
(***************************************************************************)
EXTENDS Integers, Sequences, FiniteSets, TLC

VARIABLES
    tools,          \* ToolRegistry._tools: name -> tool object
    definitions,    \* ToolRegistry._definitions: name -> ToolDefinition
    op,             \* the last operation performed (with its inputs)
    raised,         \* the exception that escaped the last operation, or "none"
    toolResult,     \* the ToolResult returned by the last ToolExecutor.execute
    lookup,         \* the (found, missing) pair returned by the last get_multiple
    http,           \* HTTPClientService.execute in progress / finished
    wf,             \* WorkflowOrchestrator.execute_workflow in progress / finished
    xf,             \* GenericApiTool._transform_response input and output
    ai,             \* AIOrchestrator.run / run_with_tool_loop in progress / finished
    conc,           \* concurrent ToolExecutor.execute calls on one event loop
    runs,           \* interleaved WorkflowOrchestrator.execute_workflow runs
    api,            \* a GenericApiTool called directly, and the process environment
    simple,         \* a SimpleToolExecutor.execute call
    ps,             \* a PromptService.prompt_normal / prompt_mcp call
    execs,          \* the execute calls made on one ToolExecutor, in order
    sel,            \* a call of WorkflowOrchestrator._extract_tool_name_from_spec
    tasks,          \* event-loop tasks that each call ToolRegistry.register
    envelope        \* the HTTPRequestSpec handed to HTTPClientService.execute, before and after

vars == <<tools, definitions, op, raised, toolResult, lookup, http, wf, xf, ai, conc, runs, api, simple, ps, execs, sel, tasks, envelope>>

(***************************************************************************)
(* Bounds of the model.                                                    *)
(***************************************************************************)
MaxRequest == 2     \* longest list of names handed to get_multiple
MaxElapsed == 1     \* largest elapsed time reading (perf_counter difference)

(***************************************************************************)
(* Tool objects.  A tool object is [name, variant]; the variant fixes its  *)
(* shape, schemas and behaviour.                                           *)
(***************************************************************************)
Names == {"alpha", "beta"}
RequestNames == Names \cup {"ghost"}
Variants == {"dec_async", "dec_sync", "obj_raises", "obj_str", "obj_blocking", "plain"}
ToolObjects == [name : Names, variant : Variants]
\* A GenericApiTool built from a ToolConfig (factory/api_tool.py).
ApiVariants == {"api"}
ApiToolObjects == [name : Names, variant : ApiVariants]

\* decorators.py: the @tool decorator attaches _tool_definition.
Shape(tool) ==
    CASE tool.variant \in {"dec_async", "dec_sync"} -> "decorated"
      [] tool.variant \in {"obj_raises", "obj_str", "obj_blocking", "api", "obj_nodesc"} ->
            "basetool"
      [] OTHER -> "other"

\* decorators.py: _is_async = inspect.iscoroutinefunction(func); for an
\* object, whether its execute is a coroutine function.
IsAsync(tool) == tool.variant \in {"dec_async", "obj_raises", "obj_str", "api"}

SchemaReqInt == [hasProperties |-> TRUE, properties |-> [q |-> "integer"], required |-> {"q"}]
SchemaOptStr == [hasProperties |-> TRUE, properties |-> [q |-> "string"], required |-> {}]
SchemaNoProps == [hasProperties |-> FALSE, properties |-> <<>>, required |-> {}]

InputSchemaOf(tool) ==
    CASE tool.variant \in {"dec_async", "obj_blocking"} -> SchemaReqInt
      [] tool.variant \in {"dec_sync", "api"} -> SchemaOptStr
      [] OTHER -> SchemaNoProps

OutputSchemaOf(tool) ==
    CASE tool.variant \in {"dec_sync"} -> [type |-> "string"]
      [] OTHER -> [type |-> "object"]

\* What the implementation does when it is called: the value it returns or
\* the exception it raises (str(e) may be the empty string).
Behaviour(tool) ==
    CASE tool.variant = "dec_async" -> [raises |-> FALSE, value |-> "dict", msg |-> <<>>]
      [] tool.variant = "dec_sync" -> [raises |-> TRUE, value |-> "none", msg |-> <<"boom">>]
      [] tool.variant = "obj_raises" -> [raises |-> TRUE, value |-> "none", msg |-> <<>>]
      [] tool.variant = "obj_str" -> [raises |-> FALSE, value |-> "str", msg |-> <<>>]
      [] OTHER -> [raises |-> FALSE, value |-> "dict", msg |-> <<>>]

ToolDefinition(tool) ==
    [name |-> tool.name,
     input_schema |-> InputSchemaOf(tool),
     output_schema |-> OutputSchemaOf(tool)]

(***************************************************************************)
(* ToolRegistry                                                            *)
(***************************************************************************)
Registered == DOMAIN tools

Put(f, k, v) == [x \in (DOMAIN f) \cup {k} |-> IF x = k THEN v ELSE f[x]]
DropAll(f, k) == <<>>
Drop(f, k) == [x \in (DOMAIN f) \ {k} |-> f[x]]

NoTool == [name |-> "", variant |-> "none"]
\* No HTTP backend takes part in the call.
NoBackend == [answer |-> [kind |-> "none", status |-> 0, body |-> "empty"], json |-> "none"]
OpRec(name, tool_name, tool, tool_names, arguments) ==
    [name |-> name, tool_name |-> tool_name, tool |-> tool,
     tool_names |-> tool_names, arguments |-> arguments, backend |-> NoBackend]

NoLookup == [found |-> <<>>, missing |-> <<>>]
NoResult == [tool_name |-> "", success |-> FALSE, data |-> "none",
             error |-> <<>>, execution_time_ms |-> 0, invoked |-> 0, present |-> FALSE]

\* An object that satisfies the BaseTool protocol (isinstance checks that
\* the attributes exist) but whose description is None.
InvalidToolObjects == [name : Names, variant : {"obj_nodesc"}]

\* ToolDefinition(name=..., description=..., input_schema=...,
\* output_schema=...) validates its fields: description must be a str, the
\* schemas dicts.
DefinitionValid(tool) == tool.variant # "obj_nodesc"

\* The registry after register(tool), and the exception register raises.
\* For a protocol object self._tools[tool_name] is assigned (line 51)
\* before the ToolDefinition is constructed (lines 52-57).
RegisterDuplicateOverwrites(reg, defs, tool) ==
    IF Shape(tool) = "other"
    THEN [tools |-> reg, definitions |-> defs, raised |-> "ToolRegistrationError"]
    ELSE [tools |-> Put(reg, tool.name, tool),
          definitions |-> Put(defs, tool.name, ToolDefinition(tool)),
          raised |-> "none"]

RegisterOutcome(reg, defs, tool) ==
    IF Shape(tool) = "other"
    THEN [tools |-> reg, definitions |-> defs, raised |-> "ToolRegistrationError"]
    ELSE IF tool.name \in DOMAIN reg
    THEN [tools |-> reg, definitions |-> defs, raised |-> "ToolRegistrationError"]
    ELSE IF Shape(tool) = "basetool" /\ ~DefinitionValid(tool)
    THEN [tools |-> Put(reg, tool.name, tool), definitions |-> defs,
          raised |-> "ValidationError"]
    ELSE [tools |-> Put(reg, tool.name, tool),
          definitions |-> Put(defs, tool.name, ToolDefinition(tool)),
          raised |-> "none"]

Register(tool) ==
    LET out == RegisterOutcome(tools, definitions, tool) IN
    /\ tools' = out.tools
    /\ definitions' = out.definitions
    /\ raised' = out.raised
    /\ op' = OpRec("register", tool.name, tool, <<>>, <<>>)
    /\ toolResult' = NoResult
    /\ lookup' = NoLookup
    /\ UNCHANGED <<http, wf, xf, ai, conc, runs, api, simple, ps, execs, sel, tasks, envelope>>

Unregister(tool_name) ==
    /\ IF tool_name \notin DOMAIN tools
       THEN /\ raised' = "ToolRegistrationError"
            /\ UNCHANGED <<tools, definitions>>
       ELSE /\ raised' = "none"
            /\ tools' = Drop(tools, tool_name)
            /\ definitions' = Drop(definitions, tool_name)
    /\ op' = OpRec("unregister", tool_name, NoTool, <<>>, <<>>)
    /\ toolResult' = NoResult
    /\ lookup' = NoLookup
    /\ UNCHANGED <<http, wf, xf, ai, conc, runs, api, simple, ps, execs, sel, tasks, envelope>>

\* get(tool_name): the tool, or ToolRegistrationError.
Get(tool_name) ==
    /\ IF tool_name \notin DOMAIN tools
       THEN raised' = "ToolRegistrationError" /\ lookup' = NoLookup
       ELSE raised' = "none" /\ lookup' = [found |-> <<tools[tool_name]>>, missing |-> <<>>]
    /\ op' = OpRec("get", tool_name, NoTool, <<>>, <<>>)
    /\ toolResult' = NoResult
    /\ UNCHANGED <<tools, definitions, http, wf, xf, ai, conc, runs, api, simple, ps, execs, sel, tasks, envelope>>

Clear ==
    /\ tools' = <<>>
    /\ definitions' = <<>>
    /\ raised' = "none"
    /\ op' = OpRec("clear", "", NoTool, <<>>, <<>>)
    /\ toolResult' = NoResult
    /\ lookup' = NoLookup
    /\ UNCHANGED <<http, wf, xf, ai, conc, runs, api, simple, ps, execs, sel, tasks, envelope>>

\* get_multiple: one pass over the requested names, in order.
RECURSIVE GetMultipleFrom(_, _, _, _)
GetMultipleFrom(reg, tool_names, found_tools, missing_names) ==
    IF tool_names = <<>>
    THEN [found |-> found_tools, missing |-> missing_names]
    ELSE LET tool_name == Head(tool_names) IN
         IF tool_name \in DOMAIN reg
         THEN GetMultipleFrom(reg, Tail(tool_names),
                              Append(found_tools, reg[tool_name]), missing_names)
         ELSE GetMultipleFrom(reg, Tail(tool_names),
                              found_tools, Append(missing_names, tool_name))

GetMultipleDropsMissing(reg, tool_names) ==
    LET r == GetMultipleFrom(reg, tool_names, <<>>, <<>>) IN
    [found |-> r.found, missing |-> IF r.missing = <<>> THEN <<>> ELSE Tail(r.missing)]

GetMultipleOutcome(reg, tool_names) == GetMultipleFrom(reg, tool_names, <<>>, <<>>)

NameLists == UNION {[1..n -> RequestNames] : n \in 0..MaxRequest}

GetMultiple(tool_names) ==
    /\ lookup' = GetMultipleOutcome(tools, tool_names)
    /\ raised' = "none"
    /\ op' = OpRec("get_multiple", "", NoTool, tool_names, <<>>)
    /\ toolResult' = NoResult
    /\ UNCHANGED <<tools, definitions, http, wf, xf, ai, conc, runs, api, simple, ps, execs, sel, tasks, envelope>>

(***************************************************************************)
(* HTTPClientService                                                       *)
(***************************************************************************)
MaxRetriesBound == 3    \* largest max_retries a service is constructed with

\* stop_after_attempt(3) of the @retry decorator on _execute_with_retry.
StopAfterAttempt == 3

\* What the backend does with one request: a response (status, body as
\* sent), or the exception client.request raises.
BodyKinds == {"json_object", "json_array", "json_invalid", "text", "empty"}
Responses ==
    [kind : {"response"}, status : {200, 404}, body : BodyKinds]
    \cup {[kind |-> "response", status |-> 204, body |-> "empty"],
          [kind |-> "response", status |-> 500, body |-> "json_object"]}
Failures ==
    {[kind |-> k, status |-> 0, body |-> "empty"] :
        k \in {"TimeoutException", "NetworkError", "UnsupportedProtocol"}}
Answers == Responses \cup Failures

Is5xx(answer) == answer.kind = "response" /\ answer.status >= 500
Is4xx(answer) == answer.kind = "response" /\ answer.status >= 400 /\ answer.status < 500

\* The exception one attempt of _execute_with_retry ends with ("none" when
\* it returns the response): a 5xx is raised through raise_for_status, a
\* 4xx response is returned, any exception of client.request is re-raised.
AttemptException(answer) ==
    IF answer.kind = "response"
    THEN IF answer.status >= 500 THEN "HTTPStatusError" ELSE "none"
    ELSE answer.kind

\* retry_if_exception_type((TimeoutException, NetworkError, HTTPStatusError))
RetryOn(exc) == exc \in {"TimeoutException", "NetworkError", "HTTPStatusError"}

\* The attempts tenacity allows: the decorator's constant, whatever
\* max_retries the service was constructed with.
MaxAttempts(max_retries) == StopAfterAttempt

\* execute, lines 158-173: the body of the envelope, by Python type.
ParseBody(answer) ==
    CASE answer.status = 204 -> "None"
      [] answer.body = "json_object" -> "dict"
      [] answer.body = "json_array" -> "list"
      [] answer.body = "json_invalid" -> "str"
      [] answer.body = "text" -> "str"
      [] OTHER -> "None"

\* HTTPResponseSpec.body is Optional[Union[Dict[str, Any], str]].
BodyFitsEnvelope(body) == body \in {"dict", "str", "None"}

NoResponse == [status_code |-> 0, body |-> "None"]

\* execute, lines 187-200: what reaches the caller for an exception of
\* _execute_with_retry.
ExecuteRaisesUnchanged(exc) == exc

ExecuteRaises(exc) ==
    IF exc = "TimeoutException" THEN "Exception: Request timed out" ELSE exc

HttpStarted(max_retries) ==
    [pc |-> "requesting", max_retries |-> max_retries, answers |-> <<>>,
     response |-> NoResponse, exc |-> "none", exc_attempt |-> 0]

\* One client.request and everything execute does until the next request
\* or until it returns or raises.  With reraise=True tenacity raises the
\* exception of the attempt it stopped at (exc_attempt).
HttpStep(h, answer) ==
    LET sent == Append(h.answers, answer)
        exc == AttemptException(answer)
    IN IF exc # "none"
       THEN IF RetryOn(exc) /\ Len(sent) < MaxAttempts(h.max_retries)
            THEN [h EXCEPT !.answers = sent]
            ELSE [h EXCEPT !.answers = sent, !.pc = "raised", !.exc = ExecuteRaises(exc),
                           !.exc_attempt = Len(sent)]
       ELSE IF BodyFitsEnvelope(ParseBody(answer))
            THEN [h EXCEPT !.answers = sent, !.pc = "returned",
                           !.response = [status_code |-> answer.status,
                                         body |-> ParseBody(answer)]]
            ELSE [h EXCEPT !.answers = sent, !.pc = "raised", !.exc = "ValidationError"]

HttpDone(h) == h.pc \in {"returned", "raised"}

HttpStart(max_retries) ==
    /\ http.pc \in {"idle", "returned", "raised"}
    /\ http' = HttpStarted(max_retries)
    /\ UNCHANGED <<tools, definitions, op, raised, toolResult, lookup, wf, xf, ai, conc, runs, api, simple, ps, execs, sel, tasks, envelope>>

HttpAttempt(answer) ==
    /\ http.pc = "requesting"
    /\ http' = HttpStep(http, answer)
    /\ UNCHANGED <<tools, definitions, op, raised, toolResult, lookup, wf, xf, ai, conc, runs, api, simple, ps, execs, sel, tasks, envelope>>

(***************************************************************************)
(* WorkflowOrchestrator.execute_workflow                                   *)
(***************************************************************************)
MaxDbRows == 2          \* most rows db_service.get_tools() returns

\* HTTPClientService.__init__: max_retries defaults to 3.
DefaultMaxRetries == 3

\* A row of the tools table: its name, and whether it converts to a
\* ToolConfig (a method outside HttpMethod or a null url does not).
DbRows == [name : Names, convertible : BOOLEAN]
DbContents ==
    {rows \in UNION {[1..n -> DbRows] : n \in 0..MaxDbRows} :
        \A i, j \in DOMAIN rows : i # j => rows[i].name # rows[j].name}
DbTool(row) == [name |-> row.name, variant |-> "db"]

ToSet(seq) == {seq[i] : i \in DOMAIN seq}

\* _retrieve_tools, lines 221-266: the database branch.
RetrieveFromDb(rows, tool_ids) ==
    LET Wanted(row) == row.name \in ToSet(tool_ids) /\ row.convertible
        kept == SelectSeq(rows, Wanted)
        found_names == {kept[i].name : i \in DOMAIN kept}
        Missing(tid) == tid \notin found_names
    IN [found |-> [i \in DOMAIN kept |-> DbTool(kept[i])],
        missing |-> SelectSeq(tool_ids, Missing)]

\* _format_tools_as_context raises when a found tool has no `name`
\* attribute: a decorated function carries its name only in its
\* _tool_definition, and the handler of the per-tool try reads tool.name too.
ContextGenerationRaises(found_tools) ==
    \E i \in DOMAIN found_tools : Shape(found_tools[i]) = "decorated"

\* The generated URL, as the set of name tokens that occur in it.
Urls == {[id |-> "u_alpha", mentions |-> {"alpha"}],
         [id |-> "u_both", mentions |-> {"alpha", "beta"}],
         [id |-> "u_plain", mentions |-> {}]}
NoUrl == [id |-> "", mentions |-> {}]

\* tool.name.lower().replace("_", " ").split(), and len(part)
NameParts(name) == <<name>>
PartLen(part) == CASE part = "alpha" -> 5 [] part = "beta" -> 4 [] OTHER -> 5

RECURSIVE FirstMatch(_, _)
FirstMatch(url, candidates) ==
    IF candidates = <<>> THEN ""
    ELSE LET parts == NameParts(Head(candidates).name) IN
         IF \E i \in DOMAIN parts : PartLen(parts[i]) > 3 /\ parts[i] \in url.mentions
         THEN Head(candidates).name
         ELSE FirstMatch(url, Tail(candidates))

\* _extract_tool_name_from_spec without the default to the first tool.
ExtractToolNameOrUnknown(http_spec, found_tools) ==
    IF found_tools = <<>> THEN "unknown"
    ELSE IF FirstMatch(http_spec.url, found_tools) # ""
    THEN FirstMatch(http_spec.url, found_tools)
    ELSE "unknown"

\* _extract_tool_name_from_spec
ExtractToolNameFromSpec(http_spec, found_tools) ==
    IF found_tools = <<>> THEN "unknown"
    ELSE IF FirstMatch(http_spec.url, found_tools) # ""
    THEN FirstMatch(http_spec.url, found_tools)
    ELSE found_tools[1].name

NoSpec == [present |-> FALSE, method |-> "", url |-> NoUrl]
NoRaw == [present |-> FALSE, status_code |-> 0, body |-> "None"]

\* What prompt_mcp does: raises, or returns a PromptResponse of some type
\* whose content parses as an HTTPRequestSpec or does not.
LlmAnswers ==
    {[kind |-> "raises", content |-> "None", url |-> NoUrl],
     [kind |-> "text", content |-> "str", url |-> NoUrl],
     [kind |-> "http_spec", content |-> "None", url |-> NoUrl],
     [kind |-> "http_spec", content |-> "invalid", url |-> NoUrl]}
    \cup {[kind |-> "http_spec", content |-> "valid", url |-> u] : u \in Urls}

\* What prompt_normal does: raises, or returns content of some Python type.
FormatAnswers == {"raises", "str", "dict", "None"}

\* What the backend does with the requests of one http_client.execute.
Ok200 == [kind |-> "response", status |-> 200, body |-> "json_object"]
NotFound404 == [kind |-> "response", status |-> 404, body |-> "json_object"]
Error500 == [kind |-> "response", status |-> 500, body |-> "json_object"]
Array200 == [kind |-> "response", status |-> 200, body |-> "json_array"]
Array404 == [kind |-> "response", status |-> 404, body |-> "json_array"]
Empty204 == [kind |-> "response", status |-> 204, body |-> "empty"]
TimedOut == [kind |-> "TimeoutException", status |-> 0, body |-> "empty"]
BackendScripts ==
    {<<Ok200>>, <<NotFound404>>, <<Array404>>, <<Empty204>>, <<Array200>>, <<Error500, Ok200>>,
     <<Error500, Error500, Error500>>, <<TimedOut, TimedOut, TimedOut>>}

RECURSIVE HttpRun(_, _)
HttpRun(h, answers) ==
    IF HttpDone(h) \/ answers = <<>> THEN h
    ELSE HttpRun(HttpStep(h, Head(answers)), Tail(answers))

\* An error response that does not name its stage.
ErrorResponseUnstaged(stage, error) ==
    [status |-> "error", selected_tool |-> "None", http_spec |-> NoSpec,
     raw_response |-> NoRaw, formatted_response |-> "None",
     error |-> error, error_stage |-> "None"]

\* The WorkflowResponse of a failed stage: status, error and error_stage;
\* every other field keeps its default None.
ErrorResponse(stage, error) ==
    [status |-> "error", selected_tool |-> "None", http_spec |-> NoSpec,
     raw_response |-> NoRaw, formatted_response |-> "None",
     error |-> error, error_stage |-> stage]

SuccessResponse(selected_tool, http_spec, response_spec, formatted) ==
    [status |-> "success", selected_tool |-> selected_tool, http_spec |-> http_spec,
     raw_response |-> [present |-> TRUE, status_code |-> response_spec.status_code,
                       body |-> response_spec.body],
     formatted_response |-> formatted,
     error |-> <<>>, error_stage |-> "None"]

NoWfResponse ==
    [status |-> "None", selected_tool |-> "None", http_spec |-> NoSpec,
     raw_response |-> NoRaw, formatted_response |-> "None",
     error |-> <<>>, error_stage |-> "None"]

WorkflowRequests ==
    [tool_ids : UNION {[1..n -> RequestNames] : n \in 1..MaxRequest},
     format_response : BOOLEAN]

WfReturn(w, response) == [w EXCEPT !.pc = "done", !.response = response]
WfCall(w, callee) == [w EXCEPT !.calls = Append(w.calls, callee)]

\* Lines 75-119: from the result of _retrieve_tools to the prompt_mcp call.
WfAfterRetrieval(w, found, missing) ==
    IF missing # <<>>
    THEN WfReturn(w, ErrorResponse("tool_retrieval",
                                   <<"Tools not found in registry: ">> \o missing))
    ELSE IF ContextGenerationRaises(found)
    THEN WfReturn([w EXCEPT !.found_tools = found],
                  ErrorResponse("tool_context_generation",
                                <<"Tool context generation error: ", "no attribute 'name'">>))
    ELSE WfCall([w EXCEPT !.found_tools = found, !.pc = "llm_selection"], "prompt_mcp")

\* _retrieve_tools, lines 275-284: the registry fallback.
WfRegistryFallback(w, reg) ==
    LET r == GetMultipleOutcome(reg, w.request.tool_ids) IN
    WfAfterRetrieval(WfCall(w, "registry.get_multiple"), r.found, r.missing)

\* What each collaborator answered in this run (history, for the properties).
NoDbAnswer == [asked |-> FALSE, raises |-> FALSE, rows |-> <<>>]
NoLlmAnswer == [kind |-> "none", content |-> "None", url |-> NoUrl]
NoHttpResult == [HttpStarted(0) EXCEPT !.pc = "idle"]

WfStarted(request, use_db) ==
    [pc |-> "tool_retrieval", request |-> request, use_db |-> use_db,
     found_tools |-> <<>>, http_spec |-> NoSpec, selected_tool |-> "None",
     response_spec |-> NoResponse, calls |-> <<>>,
     db_answer |-> NoDbAnswer, llm_answer |-> NoLlmAnswer,
     http_result |-> NoHttpResult, format_answer |-> "none",
     response |-> NoWfResponse, raised |-> "none"]

\* execute_workflow up to its first await: db_service.get_tools() when a
\* database service was given, prompt_mcp otherwise.
WfStart(request, use_db) ==
    /\ wf.pc \in {"idle", "done", "propagated"}
    /\ wf' = IF use_db
             THEN WfCall(WfStarted(request, use_db), "db.get_tools")
             ELSE WfRegistryFallback(WfStarted(request, use_db), tools)
    /\ UNCHANGED <<tools, definitions, op, raised, toolResult, lookup, http, xf, ai, conc, runs, api, simple, ps, execs, sel, tasks, envelope>>

\* get_tools() returns the rows, or raises and the registry is used.
WfAfterDb(w0, db_raises, rows, reg) ==
    LET w == [w0 EXCEPT !.db_answer = [asked |-> TRUE, raises |-> db_raises,
                                       rows |-> IF db_raises THEN <<>> ELSE rows]]
    IN IF db_raises
       THEN WfRegistryFallback(w, reg)
       ELSE LET r == RetrieveFromDb(rows, w.request.tool_ids) IN
            WfAfterRetrieval(w, r.found, r.missing)

WfDbAnswer(db_raises, rows) ==
    /\ wf.pc = "tool_retrieval"
    /\ wf' = WfAfterDb(wf, db_raises, rows, tools)
    /\ UNCHANGED <<tools, definitions, op, raised, toolResult, lookup, http, xf, ai, conc, runs, api, simple, ps, execs, sel, tasks, envelope>>

\* Lines 119-144: the answer of prompt_mcp.
LlmSelectionError(answer) ==
    CASE answer.kind = "raises" -> <<"LLM selection error: ", "LLM call failed">>
      [] answer.kind # "http_spec" -> <<"LLM selection error: ", "Expected http_spec, got ", answer.kind>>
      [] answer.content = "None" -> <<"LLM selection error: ", "argument after ** must be a mapping">>
      [] OTHER -> <<"LLM selection error: ", "validation error for HTTPRequestSpec">>

WfAfterLlmUntagged(w, answer) ==
    IF answer.kind = "http_spec" /\ answer.content = "valid"
    THEN LET spec == [present |-> TRUE, method |-> "GET", url |-> answer.url] IN
         WfCall([w EXCEPT !.pc = "api_execution", !.http_spec = spec,
                          !.selected_tool = ExtractToolNameFromSpec(spec, w.found_tools)],
                "http_client.execute")
    ELSE WfReturn(w, ErrorResponse("api_execution", LlmSelectionError(answer)))

WfAfterLlm(w, answer) ==
    IF answer.kind = "http_spec" /\ answer.content = "valid"
    THEN LET spec == [present |-> TRUE, method |-> "GET", url |-> answer.url] IN
         WfCall([w EXCEPT !.pc = "api_execution", !.http_spec = spec,
                          !.selected_tool = ExtractToolNameFromSpec(spec, w.found_tools)],
                "http_client.execute")
    ELSE WfReturn(w, ErrorResponse("llm_selection", LlmSelectionError(answer)))

WfLlmAnswer(answer) ==
    /\ wf.pc = "llm_selection"
    /\ wf' = WfAfterLlm([wf EXCEPT !.llm_answer = answer], answer)
    /\ UNCHANGED <<tools, definitions, op, raised, toolResult, lookup, http, xf, ai, conc, runs, api, simple, ps, execs, sel, tasks, envelope>>

\* Lines 185-193: building the successful WorkflowResponse;
\* formatted_response is Optional[str], so content of another type makes
\* the constructor raise ValidationError, outside every try.
WfBuildSuccess(w, formatted) ==
    IF formatted \in {"str", "None"}
    THEN WfReturn(w, SuccessResponse(w.selected_tool, w.http_spec, w.response_spec, formatted))
    ELSE [w EXCEPT !.pc = "propagated", !.raised = "ValidationError"]

\* The outcome of http_client.execute with the formatting call made even
\* after a failure.
WfAfterHttpFormatsAnyway(w, h) ==
    IF w.request.format_response
    THEN WfCall([w EXCEPT !.pc = "response_formatting", !.response_spec = h.response],
                "prompt_normal")
    ELSE WfBuildSuccess([w EXCEPT !.response_spec = h.response], "None")

\* Lines 146-162: the outcome of http_client.execute.
WfAfterHttp(w, h) ==
    IF h.pc = "raised"
    THEN WfReturn(w, ErrorResponse("api_execution", <<"API execution error: ", h.exc>>))
    ELSE IF w.request.format_response
    THEN WfCall([w EXCEPT !.pc = "response_formatting", !.response_spec = h.response],
                "prompt_normal")
    ELSE WfBuildSuccess([w EXCEPT !.response_spec = h.response], "None")

WfHttpAnswer(script) ==
    /\ wf.pc = "api_execution"
    /\ HttpDone(HttpRun(HttpStarted(DefaultMaxRetries), script))
    /\ LET h == HttpRun(HttpStarted(DefaultMaxRetries), script) IN
       wf' = WfAfterHttp([wf EXCEPT !.http_result = h], h)
    /\ UNCHANGED <<tools, definitions, op, raised, toolResult, lookup, http, xf, ai, conc, runs, api, simple, ps, execs, sel, tasks, envelope>>

\* Lines 163-183: the answer of prompt_normal; a failure is not fatal.
FormattingFailureFatal(w, answer) ==
    IF answer = "raises"
    THEN WfReturn(w, ErrorResponse("response_formatting", <<"formatting failed">>))
    ELSE WfBuildSuccess(w, answer)

WfAfterFormat(w, answer) ==
    IF answer = "raises" THEN WfBuildSuccess(w, "None") ELSE WfBuildSuccess(w, answer)

WfFormatAnswer(answer) ==
    /\ wf.pc = "response_formatting"
    /\ wf' = WfAfterFormat([wf EXCEPT !.format_answer = answer], answer)
    /\ UNCHANGED <<tools, definitions, op, raised, toolResult, lookup, http, xf, ai, conc, runs, api, simple, ps, execs, sel, tasks, envelope>>

(***************************************************************************)
(* GenericApiTool._transform_response                                      *)
(*                                                                         *)
(* Keys and paths are Python strings, modelled as sequences of characters  *)
(* so that split('.') is computed.  A JSON value is [t, s, d]: t its       *)
(* Python type, s the text of a scalar, d the key -> value map of a dict.   *)
(***************************************************************************)
StrGlobalQuote == <<"G", "l", "o", "b", "a", "l", " ", "Q", "u", "o", "t", "e">>
Str05Price == <<"0", "5", ".", " ", "p", "r", "i", "c", "e">>
StrPrice == <<"p", "r", "i", "c", "e">>
StrVolume == <<"v", "o", "l", "u", "m", "e">>
StrInfoPrice == <<"i", "n", "f", "o", ".", "p", "r", "i", "c", "e">>
StrInfo == <<"i", "n", "f", "o">>
StrDataQuote == <<"d", "a", "t", "a", ".", "q", "u", "o", "t", "e">>
StrData == <<"d", "a", "t", "a">>
StrQuote == <<"q", "u", "o", "t", "e">>
StrAbsent == <<"a", "b", "s", "e", "n", "t">>
StrNone == <<>>         \* response_path None (or ""): falsy

JStr(text) == [t |-> "str", s |-> text, d |-> <<>>]
JInt(text) == [t |-> "int", s |-> text, d |-> <<>>]
JFloat(text) == [t |-> "float", s |-> text, d |-> <<>>]
JDict(f) == [t |-> "dict", s |-> "", d |-> f]
JList == [t |-> "list", s |-> "[]", d |-> <<>>]
JNull == [t |-> "NoneType", s |-> "None", d |-> <<>>]
EmptyDict == JDict(<<>>)

\* str.split('.')
RECURSIVE SplitFrom(_, _, _)
SplitFrom(s, cur, acc) ==
    IF s = <<>> THEN Append(acc, cur)
    ELSE IF Head(s) = "."
    THEN SplitFrom(Tail(s), <<>>, Append(acc, cur))
    ELSE SplitFrom(Tail(s), Append(cur, Head(s)), acc)

SplitDots(s) == SplitFrom(s, <<>>, <<>>)

\* Lines 165-168: data = data.get(key, {}) for each segment of
\* response_path; .get on a value that is not a dict raises AttributeError.
RECURSIVE DescendPath(_, _)
DescendPath(data, keys) ==
    IF keys = <<>> THEN [raised |-> "none", data |-> data]
    ELSE IF data.t # "dict" THEN [raised |-> "AttributeError", data |-> JNull]
    ELSE DescendPath(IF Head(keys) \in DOMAIN data.d THEN data.d[Head(keys)] ELSE EmptyDict,
                     Tail(keys))

WorkingObject(response_data, response_path) ==
    IF response_path = StrNone
    THEN [raised |-> "none", data |-> response_data]
    ELSE DescendPath(response_data, SplitDots(response_path))

\* Lines 174-180: value = value.get(key) while value is a dict, else None.
RECURSIVE LookupKeys(_, _)
LookupKeys(value, keys) ==
    IF keys = <<>> THEN value
    ELSE IF value.t # "dict" THEN JNull
    ELSE IF Head(keys) \in DOMAIN value.d
    THEN LookupKeys(value.d[Head(keys)], Tail(keys))
    ELSE LookupKeys(JNull, Tail(keys))

LookupField(data, response_field) ==
    LookupKeys(data, SplitDots(response_field))

\* float(value) and int(x) of Python, on the texts the model uses.
PyFloat(value) ==
    CASE value.t = "float" -> [raised |-> "none", text |-> value.s]
      [] value.t = "int" /\ value.s = "7" -> [raised |-> "none", text |-> "7.0"]
      [] value.t = "str" /\ value.s = "150.25" -> [raised |-> "none", text |-> "150.25"]
      [] value.t = "str" /\ value.s = "1000" -> [raised |-> "none", text |-> "1000.0"]
      [] value.t = "str" /\ value.s = "1e999" -> [raised |-> "none", text |-> "inf"]
      [] value.t = "str" -> [raised |-> "ValueError", text |-> ""]
      [] OTHER -> [raised |-> "TypeError", text |-> ""]

PyIntOfFloat(text) ==
    CASE text = "150.25" -> [raised |-> "none", text |-> "150"]
      [] text = "1000.0" -> [raised |-> "none", text |-> "1000"]
      [] text = "7.0" -> [raised |-> "none", text |-> "7"]
      [] OTHER -> [raised |-> "OverflowError", text |-> ""]

\* _convert_type: ValueError and TypeError fall back to the raw value;
\* int(float('inf')) raises OverflowError, which is not caught.
ConvertType(value, target_type) ==
    IF target_type \notin {"number", "integer"}
    THEN [raised |-> "none", value |-> value]
    ELSE LET f == PyFloat(value) IN
         IF f.raised # "none" THEN [raised |-> "none", value |-> value]
         ELSE IF target_type = "number" THEN [raised |-> "none", value |-> JFloat(f.text)]
         ELSE LET i == PyIntOfFloat(f.text) IN
              IF i.raised # "none" THEN [raised |-> i.raised, value |-> value]
              ELSE [raised |-> "none", value |-> JInt(i.text)]

\* output_schema of the example configuration (tool_config.py 101-112).
OutputFields == {"price", "volume", "symbol"}
OutputType(output_field) ==
    CASE output_field = "price" -> "number"
      [] output_field = "volume" -> "integer"
      [] OTHER -> "string"

\* Lines 172-185, for one (output_field, response_field) pair.
MapFieldKeepsNone(data, output_field, response_field) ==
    LET value == LookupField(data, response_field) IN
    IF value = JNull
    THEN [raised |-> "none", present |-> TRUE, value |-> JNull]
    ELSE LET c == ConvertType(value, OutputType(output_field)) IN
         [raised |-> c.raised, present |-> c.raised = "none", value |-> c.value]

MapField(data, output_field, response_field) ==
    LET value == LookupField(data, response_field) IN
    IF value = JNull
    THEN [raised |-> "none", present |-> FALSE, value |-> JNull]
    ELSE LET c == ConvertType(value, OutputType(output_field)) IN
         [raised |-> c.raised, present |-> c.raised = "none", value |-> c.value]

\* _transform_response: the output, or the exception it raises.
TransformResponse(mapping, response_data) ==
    LET w == WorkingObject(response_data, mapping.response_path)
        r2o == mapping.response_to_output
    IN IF w.raised # "none" THEN [raised |-> w.raised, output |-> <<>>]
       ELSE LET m == [o \in DOMAIN r2o |-> MapField(w.data, o, r2o[o])]
                failing == {o \in DOMAIN r2o : m[o].raised # "none"}
            IN IF failing # {}
               THEN [raised |-> (CHOOSE e \in {m[o].raised : o \in failing} : TRUE),
                     output |-> <<>>]
               ELSE [raised |-> "none",
                     output |-> [o \in {x \in DOMAIN r2o : m[x].present} |-> m[o].value]]

\* Configurations and response bodies the transformation is run on.
ResponsePaths == {StrNone, StrGlobalQuote, StrDataQuote, StrAbsent}
ResponseFields == {Str05Price, StrPrice, StrInfoPrice, StrVolume}
FieldMappings ==
    [response_path : ResponsePaths,
     response_to_output : UNION {[d -> ResponseFields] : d \in {{"price"}, {"price", "volume"}}}]

QuoteExample == (Str05Price :> JStr("150.25")) @@ (StrVolume :> JStr("1000"))
QuotePlain == (StrPrice :> JStr("150.25")) @@ (StrInfo :> JDict(StrPrice :> JInt("7")))
QuoteOdd == (StrPrice :> JStr("abc")) @@ (StrInfo :> JStr("x")) @@ (StrVolume :> JStr("1e999"))
QuoteNulls == (StrPrice :> JFloat("150.25")) @@ (StrInfo :> JDict(StrPrice :> JNull))
                 @@ (StrVolume :> JList)

\* The round trip of the example configuration (tool_config.py 113-126).
ExampleMapping ==
    [response_path |-> StrGlobalQuote, response_to_output |-> [price |-> Str05Price]]
ExampleBody == JDict(StrGlobalQuote :> JDict(Str05Price :> JStr("150.25")))

ResponseBodies ==
    {ExampleBody,
     JDict(StrGlobalQuote :> JDict(QuoteExample)),
     JDict(StrGlobalQuote :> JDict(QuotePlain)),
     JDict(StrData :> JDict(StrQuote :> JDict(QuoteOdd))),
     JDict(QuoteNulls),
     JDict(QuotePlain),
     JDict(StrGlobalQuote :> JStr("closed")),
     JDict(StrData :> JStr("closed")),
     JDict(StrData :> JNull)}

XfReady(mapping, response_data) ==
    [pc |-> "ready", mapping |-> mapping, response_data |-> response_data,
     raised |-> "none", output |-> <<>>]

Transform ==
    /\ xf.pc = "ready"
    /\ LET out == TransformResponse(xf.mapping, xf.response_data) IN
       xf' = [xf EXCEPT !.pc = "done", !.raised = out.raised, !.output = out.output]
    /\ UNCHANGED <<tools, definitions, op, raised, toolResult, lookup, http, wf, ai, conc, runs, api, simple, ps, execs, sel, tasks, envelope>>

(***************************************************************************)
(* ToolExecutor                                                            *)
(***************************************************************************)
\* Argument values, by Python type: an int, a str that is not a number, a
\* str that reads as a number, and None.
ArgValues == {"int:1", "str:x", "str:7", "None"}
ArgFields == {"q", "z"}
Arguments == UNION {[d -> ArgValues] : d \in SUBSET ArgFields}

\* _json_type_to_python, then pydantic's (lax) validation of one value
\* against the Python type: int accepts an int or a str holding an integer,
\* str accepts only a str; None is accepted by neither.
Coerce(json_type, v) ==
    CASE json_type = "integer" /\ v = "int:1" -> "int:1"
      [] json_type = "integer" /\ v = "str:7" -> "int:7"
      [] json_type = "string" /\ v \in {"str:x", "str:7"} -> v
      [] OTHER -> "invalid"

\* _validate_inputs with every argument dict accepted as it is.
ValidateInputsAcceptAll(input_schema, arguments) == [ok |-> TRUE, args |-> arguments]

\* _validate_inputs: the validation model has one field per schema property
\* (required, or defaulting to None); model_dump() returns every field of
\* the model and none of the extra arguments.
ValidateInputs(input_schema, arguments) ==
    IF ~input_schema.hasProperties
    THEN [ok |-> TRUE, args |-> arguments]
    ELSE LET props == input_schema.properties
             bad == {f \in DOMAIN props :
                        \/ f \in DOMAIN arguments /\ Coerce(props[f], arguments[f]) = "invalid"
                        \/ f \notin DOMAIN arguments /\ f \in input_schema.required}
         IN IF bad # {}
            THEN [ok |-> FALSE, args |-> <<>>]
            ELSE [ok |-> TRUE,
                  args |-> [f \in DOMAIN props |->
                              IF f \in DOMAIN arguments
                              THEN Coerce(props[f], arguments[f]) ELSE "None"]]

\* The JSON document a backend sends, by name.
ApiJsonIds == {"plain", "odd", "flat"}
ApiJson(id) ==
    CASE id = "plain" -> JDict(StrGlobalQuote :> JDict(QuotePlain))
      [] id = "odd" -> JDict(StrGlobalQuote :> JDict(QuoteOdd))
      [] id = "flat" -> JDict(QuotePlain)
      [] id = "list" -> JList
      [] OTHER -> JNull

\* What the backend does with the one request of a GenericApiTool.
ApiBackends ==
    {b \in [answer : Answers, json : ApiJsonIds \cup {"list", "none"}] :
        \/ b.answer.kind = "response" /\ b.answer.body = "json_object" /\ b.json \in ApiJsonIds
        \/ b.answer.kind = "response" /\ b.answer.body = "json_array" /\ b.json = "list"
        \/ b.answer.kind = "response"
              /\ b.answer.body \notin {"json_object", "json_array"} /\ b.json = "none"
        \/ b.answer.kind # "response" /\ b.json = "none"}

\* The configuration of the modelled GenericApiTool: the mapping of the
\* example configuration with undotted response field names.
ApiMapping ==
    [response_path |-> StrGlobalQuote,
     response_to_output |-> [price |-> StrPrice, volume |-> StrVolume]]

\* _make_request: client.get/post/... may raise; raise_for_status raises
\* HTTPStatusError for a 4xx or 5xx; response.json() raises JSONDecodeError
\* for a body that is not JSON.  str(e) of a timeout may be empty.
MakeRequest(backend) ==
    LET a == backend.answer IN
    IF a.kind # "response"
    THEN [raised |-> a.kind, msg |-> <<>>, data |-> JNull]
    ELSE IF a.status >= 400
    THEN [raised |-> "HTTPStatusError", msg |-> <<"Client or server error for url">>,
          data |-> JNull]
    ELSE IF a.body \notin {"json_object", "json_array"}
    THEN [raised |-> "JSONDecodeError", msg |-> <<"Expecting value">>, data |-> JNull]
    ELSE [raised |-> "none", msg |-> <<>>, data |-> ApiJson(backend.json)]

\* GenericApiTool.execute: one request, then _transform_response.
ApiToolExecute(tool, arguments, backend) ==
    LET r == MakeRequest(backend) IN
    IF r.raised # "none"
    THEN [raises |-> TRUE, value |-> "none", msg |-> r.msg, offloaded |-> FALSE]
    ELSE LET t == TransformResponse(ApiMapping, r.data) IN
         IF t.raised # "none"
         THEN [raises |-> TRUE, value |-> "none", msg |-> <<t.raised>>, offloaded |-> FALSE]
         ELSE [raises |-> FALSE, value |-> "dict", msg |-> <<>>, offloaded |-> FALSE]

\* _execute_tool: objects with execute are awaited; a decorated coroutine
\* function is awaited, a decorated plain function runs in the loop's
\* executor.  Awaiting the result of an execute that is not a coroutine
\* function raises TypeError after the call was made.
ExecuteTool(tool, arguments, backend) ==
    LET b == Behaviour(tool) IN
    IF tool.variant \in ApiVariants
    THEN ApiToolExecute(tool, arguments, backend)
    ELSE IF b.raises
    THEN [raises |-> TRUE, value |-> "none", msg |-> b.msg, offloaded |-> FALSE]
    ELSE IF Shape(tool) = "basetool" /\ ~IsAsync(tool)
    THEN [raises |-> TRUE, value |-> "none",
          msg |-> <<"object dict can't be used in 'await' expression">>,
          offloaded |-> FALSE]
    ELSE [raises |-> FALSE, value |-> b.value, msg |-> <<>>,
          offloaded |-> (Shape(tool) = "decorated" /\ ~IsAsync(tool))]

\* _validate_outputs: on a type mismatch the code evaluates
\* ValidationError("Expected ..."); pydantic's ValidationError has no such
\* constructor, so the expression raises TypeError instead.
ValidateOutputs(output_schema, result) ==
    CASE output_schema.type = "string" /\ result # "str" -> "TypeError"
      [] output_schema.type = "object" /\ result # "dict" -> "TypeError"
      [] OTHER -> "ok"

FailedWithData(tool_name, prefix, msg, elapsed, invoked) ==
    [tool_name |-> tool_name, success |-> FALSE, data |-> "dict",
     error |-> prefix \o msg, execution_time_ms |-> elapsed,
     invoked |-> invoked, present |-> TRUE]

Failed(tool_name, prefix, msg, elapsed, invoked) ==
    [tool_name |-> tool_name, success |-> FALSE, data |-> "none",
     error |-> prefix \o msg, execution_time_ms |-> elapsed,
     invoked |-> invoked, present |-> TRUE]

Succeeded(tool_name, data, elapsed) ==
    [tool_name |-> tool_name, success |-> TRUE, data |-> data,
     error |-> <<>>, execution_time_ms |-> elapsed,
     invoked |-> 1, present |-> TRUE]

\* executor.py 81-89: the handler around _execute_tool.
ExecutionErrorBare(tool_name, msg, elapsed) ==
    Failed(tool_name, <<>>, msg, elapsed, 1)

ExecutionError(tool_name, msg, elapsed) ==
    Failed(tool_name, <<"Execution error: ">>, msg, elapsed, 1)

\* executor.py 58-107: the body of the outer try.  exc is the exception
\* that reaches the outer handler, if any.
ExecuteBody(reg, defs, tool_name, arguments, elapsed, backend) ==
    IF tool_name \notin DOMAIN reg \/ tool_name \notin DOMAIN defs
    THEN [exc |-> "ToolRegistrationError", msg |-> <<"Tool '", tool_name, "' not found">>,
          invoked |-> 0, result |-> NoResult]
    ELSE LET tool == reg[tool_name]
             tool_def == defs[tool_name]
             v == ValidateInputs(tool_def.input_schema, arguments)
         IN IF ~v.ok
            THEN [exc |-> "none", msg |-> <<>>, invoked |-> 0,
                  result |-> Failed(tool_name, <<"Input validation error: ">>,
                                    <<"validation error for ", tool_name, "_InputValidation">>,
                                    elapsed, 0)]
            ELSE LET r == ExecuteTool(tool, v.args, backend) IN
                 IF r.raises
                 THEN [exc |-> "none", msg |-> <<>>, invoked |-> 1,
                       result |-> ExecutionError(tool_name, r.msg, elapsed)]
                 ELSE IF ValidateOutputs(tool_def.output_schema, r.value) # "ok"
                 THEN [exc |-> "TypeError", msg |-> <<"No constructor defined">>,
                       invoked |-> 1, result |-> NoResult]
                 ELSE [exc |-> "none", msg |-> <<>>, invoked |-> 1,
                       result |-> Succeeded(tool_name, r.value, elapsed)]

\* executor.py 109-117: the outer handler, `except Exception`.
CatchNothing(tool_name, body, elapsed) ==
    [raised |-> body.exc, result |-> body.result]

CatchUnexpected(tool_name, body, elapsed) ==
    IF body.exc = "none"
    THEN [raised |-> "none", result |-> body.result]
    ELSE [raised |-> "none",
          result |-> Failed(tool_name, <<"Unexpected error: ">>, body.msg, elapsed, body.invoked)]

ExecuteOutcome(reg, defs, tool_name, arguments, elapsed, backend) ==
    CatchUnexpected(tool_name,
                    ExecuteBody(reg, defs, tool_name, arguments, elapsed, backend), elapsed)

\* backend is what the HTTP backend answers if the tool sends a request.
Execute(tool_name, arguments, elapsed, backend) ==
    LET out == ExecuteOutcome(tools, definitions, tool_name, arguments, elapsed, backend) IN
    /\ toolResult' = out.result
    /\ raised' = out.raised
    /\ op' = [OpRec("execute", tool_name, NoTool, <<>>, arguments) EXCEPT !.backend = backend]
    /\ lookup' = NoLookup
    /\ UNCHANGED <<tools, definitions, http, wf, xf, ai, conc, runs, api, simple, ps, execs, sel, tasks, envelope>>

\* Most execute calls made on one executor.
MaxExecCalls == 2

\* ToolExecutor.execute called again on the same executor: the executor
\* holds the registry and nothing else, every call starts from its
\* arguments.
ExecuteNext(tool_name, arguments, elapsed) ==
    LET out == ExecuteOutcome(tools, definitions, tool_name, arguments, elapsed, NoBackend) IN
    /\ Len(execs) < MaxExecCalls
    /\ toolResult' = out.result
    /\ raised' = out.raised
    /\ op' = OpRec("execute", tool_name, NoTool, <<>>, arguments)
    /\ lookup' = NoLookup
    /\ execs' = Append(execs, [tool_name |-> tool_name, arguments |-> arguments,
                              raised |-> out.raised, result |-> out.result])
    /\ UNCHANGED <<tools, definitions, http, wf, xf, ai, conc, runs, api, simple, ps, sel, tasks, envelope>>

(***************************************************************************)
(* GenericApiTool: building the request.                                   *)
(*                                                                         *)
(* Header names, parameter names, values and secret references are Python  *)
(* strings, modelled as sequences of characters; a dict is a function from *)
(* keys to values; an Optional[str] is [is_none, s].                       *)
(***************************************************************************)
MaxApiCalls == 2        \* most execute calls made on one tool object

PyNone == [is_none |-> TRUE, s |-> <<>>]
Some(s) == [is_none |-> FALSE, s |-> s]

StrK == <<"K">>
StrBearer == <<"B", "e", "a", "r", "e", "r", " ">>
StrAuthorization == <<"A", "u", "t", "h", "o", "r", "i", "z", "a", "t", "i", "o", "n">>
StrXApiKey == <<"X", "-", "A", "P", "I", "-", "K", "e", "y">>
StrApikey == <<"a", "p", "i", "k", "e", "y">>
StrSymbol == <<"s", "y", "m", "b", "o", "l">>
StrAccept == <<"A", "c", "c", "e", "p", "t">>

\* os.environ: the variables that are set, each with its value.
EnvNames == {StrK}
EnvValues == {<<>>, <<"a">>}
Environments == UNION {[d -> EnvValues] : d \in SUBSET EnvNames}

\* dict[key] = value
DictSet(d, key, value) == [k \in DOMAIN d \cup {key} |-> IF k = key THEN value ELSE d[k]]

StartsWith(s, prefix) == Len(s) >= Len(prefix) /\ SubSeq(s, 1, Len(prefix)) = prefix
EndsWith(s, suffix) ==
    Len(s) >= Len(suffix) /\ SubSeq(s, Len(s) - Len(suffix) + 1, Len(s)) = suffix

\* _resolve_secret: a falsy reference gives ""; "${...}" is looked up with
\* os.getenv and a missing or empty value gives ""; anything else is
\* returned as it is.
ResolveSecret(secret_ref, env) ==
    IF secret_ref.is_none \/ secret_ref.s = <<>> THEN <<>>
    ELSE IF StartsWith(secret_ref.s, <<"$", "{">>) /\ EndsWith(secret_ref.s, <<"}">>)
    THEN LET env_var == SubSeq(secret_ref.s, 3, Len(secret_ref.s) - 1) IN
         IF env_var \notin DOMAIN env \/ env[env_var] = <<>> THEN <<>> ELSE env[env_var]
    ELSE secret_ref.s

\* str(value) of an argument value.
PyStr(v) ==
    CASE v = "int:1" -> <<"1">>
      [] v = "str:x" -> <<"x">>
      [] v = "str:7" -> <<"7">>
      [] OTHER -> <<"N", "o", "n", "e">>

\* _build_headers: a copy of the static headers, then the auth header.
\* headers is Optional: None has no copy().
BuildHeaders(config, env) ==
    IF config.headers.is_none
    THEN [raised |-> "AttributeError", d |-> <<>>]
    ELSE LET headers == config.headers.d
             api_key == ResolveSecret(config.auth.secret_ref, env)
         IN [raised |-> "none",
             d |-> CASE config.auth.method = "api_key_header" ->
                          DictSet(headers,
                                  IF config.auth.key_name.is_none \/ config.auth.key_name.s = <<>>
                                  THEN StrXApiKey ELSE config.auth.key_name.s,
                                  api_key)
                     [] config.auth.method = "bearer" ->
                          DictSet(headers, StrAuthorization, StrBearer \o api_key)
                     [] OTHER -> headers]

\* The loop of lines 117-119 over input_to_params, in the dict's order.
RECURSIVE MapInputsToParams(_, _, _)
MapInputsToParams(params, input_to_params, input_args) ==
    IF input_to_params = <<>> THEN params
    ELSE LET input_field == Head(input_to_params)[1]
             param_name == Head(input_to_params)[2]
         IN MapInputsToParams(IF input_field \in DOMAIN input_args
                              THEN DictSet(params, param_name, PyStr(input_args[input_field]))
                              ELSE params,
                              Tail(input_to_params), input_args)

\* _build_params: a copy of the static parameters, then the credential,
\* then the mapped inputs.  params is Optional: None has no copy().
BuildParams(config, input_args, env) ==
    IF config.params.is_none
    THEN [raised |-> "AttributeError", d |-> <<>>]
    ELSE LET params == config.params.d
             with_auth == IF config.auth.method = "api_key_query"
                          THEN DictSet(params,
                                       IF config.auth.key_name.is_none
                                          \/ config.auth.key_name.s = <<>>
                                       THEN StrApikey ELSE config.auth.key_name.s,
                                       ResolveSecret(config.auth.secret_ref, env))
                          ELSE params
         IN [raised |-> "none",
             d |-> MapInputsToParams(with_auth, config.input_to_params, input_args)]

\* _build_body: None without a body mapping or when no mapped input is
\* present; the values are passed as they are.
RECURSIVE MapInputsToBody(_, _, _)
MapInputsToBody(body, input_to_body, input_args) ==
    IF input_to_body = <<>> THEN body
    ELSE LET input_field == Head(input_to_body)[1]
             body_field == Head(input_to_body)[2]
         IN MapInputsToBody(IF input_field \in DOMAIN input_args
                            THEN DictSet(body, body_field, input_args[input_field])
                            ELSE body,
                            Tail(input_to_body), input_args)

BuildBody(config, input_args) ==
    LET body == MapInputsToBody(<<>>, config.input_to_body, input_args) IN
    IF DOMAIN body = {} THEN [is_none |-> TRUE, d |-> <<>>] ELSE [is_none |-> FALSE, d |-> body]

\* The configurations of the modelled tools.
StaticHeaders ==
    {[is_none |-> TRUE, d |-> <<>>],
     [is_none |-> FALSE, d |-> <<>>],
     [is_none |-> FALSE, d |-> (StrAuthorization :> <<"o", "l", "d">>)],
     [is_none |-> FALSE, d |-> (StrXApiKey :> <<"o", "l", "d">>) @@ (StrAccept :> <<"j">>)]}
StaticParams ==
    {[is_none |-> TRUE, d |-> <<>>],
     [is_none |-> FALSE, d |-> <<>>],
     [is_none |-> FALSE, d |-> (StrApikey :> <<"o", "l", "d">>) @@ (StrSymbol :> <<"I">>)]}
AuthMethods == {"none", "api_key_header", "api_key_query", "bearer", "oauth2"}
KeyNames == {PyNone, Some(<<>>), Some(StrK)}
SecretRefs ==
    {PyNone, Some(<<>>), Some(<<"$", "{", "K", "}">>), Some(<<"$", "{", "}">>),
     Some(<<"$", "{", "K">>), Some(<<"s", "k">>)}
InputToParams ==
    {<<>>, <<<<"q", StrSymbol>>>>, <<<<"q", StrApikey>>>>,
     <<<<"q", StrSymbol>>, <<"z", StrSymbol>>>>}
InputToBody == {<<>>, <<<<"z", StrSymbol>>>>}

ApiConfig(headers, params, method, key_name, secret_ref, input_to_params, input_to_body) ==
    [headers |-> headers, params |-> params,
     auth |-> [method |-> method, key_name |-> key_name, secret_ref |-> secret_ref],
     input_to_params |-> input_to_params, input_to_body |-> input_to_body]

EmptyStatic == [is_none |-> FALSE, d |-> <<>>]

\* Every secret reference under every method that sends a credential;
\* every source of parameters, with and without a credential; every source
\* of headers.
ApiConfigs ==
    {ApiConfig(EmptyStatic, EmptyStatic, m, PyNone, s, <<>>, <<>>) :
        m \in {"api_key_header", "api_key_query", "bearer"}, s \in SecretRefs}
    \cup {ApiConfig(EmptyStatic, p, "api_key_query", k, Some(<<"$", "{", "K", "}">>), i, <<>>) :
            p \in StaticParams, k \in KeyNames, i \in InputToParams}
    \cup {ApiConfig(EmptyStatic, p, "none", PyNone, PyNone, i, b) :
            p \in StaticParams, i \in InputToParams, b \in InputToBody}
    \cup {ApiConfig(h, EmptyStatic, m, k, s, <<>>, <<>>) :
            h \in StaticHeaders, m \in AuthMethods, k \in KeyNames,
            s \in {Some(<<"$", "{", "K", "}">>), Some(<<"s", "k">>)}}

NoConfig == ApiConfig(EmptyStatic, EmptyStatic, "none", PyNone, PyNone, <<>>, <<>>)
NoRequest ==
    [raised |-> "none", headers |-> <<>>, params |-> <<>>,
     body |-> [is_none |-> TRUE, d |-> <<>>], arguments |-> <<>>, env |-> <<>>,
     returned |-> FALSE, script |-> <<>>, sent |-> <<>>]

ApiIdle ==
    [constructed |-> FALSE, config |-> NoConfig, env |-> <<>>, calls |-> 0,
     request |-> NoRequest, previous |-> NoRequest]

\* The environment os.getenv reads during a call.
EnvAtConstruction(a) == <<>>

EnvAtCall(a) == a.env

\* GenericApiTool.__init__: the configuration is stored as given.
ApiConstruct(config) ==
    /\ ~api.constructed
    /\ api' = [api EXCEPT !.constructed = TRUE, !.config = config]
    /\ UNCHANGED <<tools, definitions, op, raised, toolResult, lookup, http, wf, xf, ai, conc, runs, simple, ps, execs, sel, tasks, envelope>>

\* The process environment changes (os.environ[name] = value, or del).
SetEnv(env) ==
    /\ env # api.env
    /\ api' = [api EXCEPT !.env = env]
    /\ UNCHANGED <<tools, definitions, op, raised, toolResult, lookup, http, wf, xf, ai, conc, runs, simple, ps, execs, sel, tasks, envelope>>

\* _make_request with the request repeated once after a retryable failure.
RequestsSentRetrying(script) ==
    IF Len(script) > 1 /\ RetryOn(AttemptException(script[1].answer))
    THEN SubSeq(script, 1, 2)
    ELSE SubSeq(script, 1, 1)

\* _make_request: one client.get/post/put/patch/delete, outside any loop
\* or retry decorator.  script is what the backend would answer to the
\* first request and to the ones after it; the result is the answers the
\* backend was asked for.
RequestsSent(script) == SubSeq(script, 1, 1)

\* GenericApiTool.execute: headers, parameters and body are built, the
\* request is made and the response transformed.
ApiExecuted(a, arguments, script) ==
    LET headers == BuildHeaders(a.config, EnvAtCall(a))
        params == BuildParams(a.config, arguments, EnvAtCall(a))
        body == BuildBody(a.config, arguments)
        failure == IF headers.raised # "none" THEN headers.raised ELSE params.raised
        sent == RequestsSent(script)
        outcome == ApiToolExecute(NoTool, arguments, sent[Len(sent)])
    IN [a EXCEPT
          !.calls = @ + 1,
          !.previous = [NoRequest EXCEPT !.headers = a.request.headers,
                                         !.params = a.request.params],
          !.request =
              IF failure # "none"
              THEN [NoRequest EXCEPT !.raised = failure, !.arguments = arguments,
                                     !.env = a.env, !.script = script]
              ELSE [raised |-> IF outcome.raises THEN "request" ELSE "none",
                    headers |-> headers.d, params |-> params.d, body |-> body,
                    arguments |-> arguments, env |-> a.env,
                    returned |-> ~outcome.raises,
                    script |-> script, sent |-> sent]]

ApiExecute(arguments, script) ==
    /\ api.constructed
    /\ api.calls < MaxApiCalls
    /\ api' = ApiExecuted(api, arguments, script)
    /\ UNCHANGED <<tools, definitions, op, raised, toolResult, lookup, http, wf, xf, ai, conc, runs, simple, ps, execs, sel, tasks, envelope>>

\* The input schema of the tool: two optional string properties.
SchemaTwoOptStr ==
    [hasProperties |-> TRUE, properties |-> [q |-> "string", z |-> "string"], required |-> {}]

\* ToolExecutor.execute on the tool: _validate_inputs, then
\* tool.execute(**validated_args) (executor.py 67 and 80); invalid
\* arguments end the call before the tool is invoked.
ExecutorApiExecute(arguments, script) ==
    /\ api.constructed
    /\ api.calls < MaxApiCalls
    /\ LET v == ValidateInputs(SchemaTwoOptStr, arguments) IN
       api' = IF v.ok
              THEN ApiExecuted(api, v.args, script)
              ELSE [api EXCEPT !.calls = @ + 1,
                               !.previous = NoRequest,
                               !.request = [NoRequest EXCEPT !.raised = "ValidationError"]]
    /\ op' = OpRec("execute", "", NoTool, <<>>, arguments)
    /\ UNCHANGED <<tools, definitions, raised, toolResult, lookup, http, wf, xf, ai, conc, runs, simple, ps, execs, sel, tasks, envelope>>

(***************************************************************************)
(* SimpleToolExecutor                                                      *)
(***************************************************************************)
NoDict == [is_none |-> TRUE, d |-> <<>>]
HttpMethods == {"GET", "POST", "PUT", "DELETE", "PATCH", "HEAD", "OPTIONS"}

\* SimpleToolSpec: method, static headers, api_key (api_key_header is left
\* at its default, Authorization).
SimpleToolSpecs ==
    [method : HttpMethods,
     headers : {NoDict, [is_none |-> FALSE, d |-> <<>>],
                [is_none |-> FALSE, d |-> (StrAccept :> <<"j">>)]},
     api_key : {PyNone, Some(<<>>), Some(<<"s", "k">>)}]

\* The parameters of a call: a dict with str keys and values of any type.
ParamKeys == {"str:x", "str:7"}
ParamValues == {"int:1", "str:x", "None"}
Parameters == UNION {[d -> ParamValues] : d \in SUBSET ParamKeys}

\* SimpleToolExecutor._build_headers: static headers, then the api key;
\* None when the result is empty.
SimpleBuildHeaders(spec) ==
    LET static == IF spec.headers.is_none THEN <<>> ELSE spec.headers.d
        headers == IF spec.api_key.is_none \/ spec.api_key.s = <<>>
                   THEN static
                   ELSE DictSet(static, StrAuthorization, spec.api_key.s)
    IN IF DOMAIN headers = {} THEN NoDict ELSE [is_none |-> FALSE, d |-> headers]

\* _convert_params_to_strings: {str(k): str(v)}.
ConvertParamsToStrings(params) ==
    [name \in {PyStr(k) : k \in DOMAIN params} |->
        PyStr(params[CHOOSE k \in DOMAIN params : PyStr(k) = name])]

\* _build_http_spec with every method routed to the body.
BuildHttpSpecBodyOnly(spec, parameters) ==
    [method |-> spec.method, headers |-> SimpleBuildHeaders(spec), query_params |-> NoDict,
     body |-> IF DOMAIN parameters = {} THEN NoDict
              ELSE [is_none |-> FALSE, d |-> parameters]]

\* _build_http_spec: GET, HEAD and OPTIONS send the parameters as query
\* parameters, every other method as the body; an empty dict is falsy.
BuildHttpSpec(spec, parameters) ==
    [method |-> spec.method,
     headers |-> SimpleBuildHeaders(spec),
     query_params |->
        IF spec.method \in {"GET", "HEAD", "OPTIONS"} /\ DOMAIN parameters # {}
        THEN [is_none |-> FALSE, d |-> ConvertParamsToStrings(parameters)]
        ELSE NoDict,
     body |->
        IF spec.method \notin {"GET", "HEAD", "OPTIONS"} /\ DOMAIN parameters # {}
        THEN [is_none |-> FALSE, d |-> parameters]
        ELSE NoDict]

SimpleIdle ==
    [called |-> FALSE,
     spec |-> [method |-> "GET", headers |-> NoDict, api_key |-> PyNone],
     parameters |-> <<>>,
     http_spec |-> [method |-> "GET", headers |-> NoDict, query_params |-> NoDict,
                    body |-> NoDict],
     raised |-> "none", status_code |-> 0]

\* SimpleToolExecutor.execute: the request specification is built and
\* handed to HTTPClientService.execute; the response is returned, an
\* exception re-raised.
SimpleExecute(spec, parameters, script) ==
    /\ ~simple.called
    /\ LET h == HttpRun(HttpStarted(DefaultMaxRetries), script) IN
       simple' = [called |-> TRUE, spec |-> spec, parameters |-> parameters,
                  http_spec |-> BuildHttpSpec(spec, parameters),
                  raised |-> h.exc, status_code |-> h.response.status_code]
    /\ UNCHANGED <<tools, definitions, op, raised, toolResult, lookup, http, wf, xf, ai, conc, runs, api, ps, execs, sel, tasks, envelope>>

\* The caller is done with the response; the executor keeps nothing of
\* the call.
SimpleForget ==
    /\ simple.called
    /\ simple' = SimpleIdle
    /\ UNCHANGED <<tools, definitions, op, raised, toolResult, lookup, http, wf, xf, ai, conc, runs, api, ps, execs, sel, tasks, envelope>>

(***************************************************************************)
(* PromptService                                                           *)
(***************************************************************************)
\* stop_after_attempt(3) of the decorator of _call_llm_with_retry.
LlmStopAfterAttempt == 3

\* What one LLM API call does: it raises, or answers with a content
\* (output_parsed and message.content may be None).
LlmErrors == {"RateLimitError", "APITimeoutError"}
LlmContents == {"content", "None"}

\* The number of LLM calls _call_llm_with_retry makes at most: the
\* decorator's constant; self.max_retries is stored and never read.
LlmMaxAttempts(max_retries) == LlmStopAfterAttempt

PsIdle ==
    [pc |-> "idle", mode |-> "normal", max_retries |-> 0, errors |-> <<>>,
     content |-> "none", type |-> "none", exc |-> "none"]

\* prompt_normal / prompt_mcp up to the first LLM call, on a service
\* constructed with max_retries.
PromptStart(mode, max_retries) ==
    /\ ps.pc \in {"idle", "returned", "raised"}
    /\ ps' = [PsIdle EXCEPT !.pc = "calling", !.mode = mode, !.max_retries = max_retries]
    /\ UNCHANGED <<tools, definitions, op, raised, toolResult, lookup, http, wf, xf, ai, conc, runs, api, simple, execs, sel, tasks, envelope>>

\* One LLM call raises: tenacity calls again, or with reraise=True raises
\* the exception of the last attempt, which prompt_* re-raises.
PromptLlmRaises(error) ==
    /\ ps.pc = "calling"
    /\ LET errors == Append(ps.errors, error) IN
       ps' = IF Len(errors) < LlmMaxAttempts(ps.max_retries)
             THEN [ps EXCEPT !.errors = errors]
             ELSE [ps EXCEPT !.errors = errors, !.pc = "raised", !.exc = error]
    /\ UNCHANGED <<tools, definitions, op, raised, toolResult, lookup, http, wf, xf, ai, conc, runs, api, simple, execs, sel, tasks, envelope>>

\* One LLM call answers: the content is wrapped in a PromptResponse.
PromptLlmAnswers(content) ==
    /\ ps.pc = "calling"
    /\ ps' = [ps EXCEPT !.pc = "returned", !.content = content,
                        !.type = IF ps.mode = "mcp" THEN "http_spec" ELSE "text"]
    /\ UNCHANGED <<tools, definitions, op, raised, toolResult, lookup, http, wf, xf, ai, conc, runs, api, simple, execs, sel, tasks, envelope>>

(***************************************************************************)
(* WorkflowOrchestrator._extract_tool_name_from_spec on strings: the URL   *)
(* and the candidates' names are sequences of characters.                  *)
(***************************************************************************)
MaxCandidates == 3      \* most candidate tools handed to the heuristic

\* str.lower(), on the characters the model uses.
LowerChar(c) ==
    CASE c = "W" -> "w" [] c = "T" -> "t" [] c = "H" -> "h" [] c = "R" -> "r"
      [] c = "S" -> "s" [] c = "O" -> "o" [] c = "K" -> "k" [] c = "X" -> "x"
      [] OTHER -> c
Lower(s) == [i \in DOMAIN s |-> LowerChar(s[i])]

\* str.replace("_", " ")
ReplaceUnderscores(s) == [i \in DOMAIN s |-> IF s[i] = "_" THEN " " ELSE s[i]]

\* str.split(): the maximal runs of characters that are not whitespace.
RECURSIVE SplitWhitespaceFrom(_, _, _)
SplitWhitespaceFrom(s, cur, acc) ==
    IF s = <<>> THEN (IF cur = <<>> THEN acc ELSE Append(acc, cur))
    ELSE IF Head(s) = " "
    THEN SplitWhitespaceFrom(Tail(s), <<>>, IF cur = <<>> THEN acc ELSE Append(acc, cur))
    ELSE SplitWhitespaceFrom(Tail(s), Append(cur, Head(s)), acc)

SplitWhitespace(s) == SplitWhitespaceFrom(s, <<>>, <<>>)

\* part in url_lower
Contains(s, part) ==
    \E i \in 0..(Len(s) - Len(part)) : SubSeq(s, i + 1, i + Len(part)) = part

\* The part is looked for in the URL whatever its length.
PartMatchesAnyLength(part, url_lower) == Contains(url_lower, part)

\* len(part) > 3 and part in url_lower
PartMatches(part, url_lower) == Len(part) > 3 /\ Contains(url_lower, part)

\* Strategy 1, lines 402-409: the first tool with a matching part.
RECURSIVE FirstUrlMatch(_, _)
FirstUrlMatch(url_lower, names) ==
    IF names = <<>> THEN [found |-> FALSE, name |-> <<>>]
    ELSE LET tool_name_parts == SplitWhitespace(ReplaceUnderscores(Lower(Head(names)))) IN
         IF \E i \in DOMAIN tool_name_parts : PartMatches(tool_name_parts[i], url_lower)
         THEN [found |-> TRUE, name |-> Head(names)]
         ELSE FirstUrlMatch(url_lower, Tail(names))

\* _extract_tool_name_from_spec: "unknown" without tools; else the first
\* match; else the only tool; else the first tool.
ExtractToolNameFromUrl(url, names) ==
    IF names = <<>> THEN <<"u", "n", "k", "n", "o", "w", "n">>
    ELSE LET m == FirstUrlMatch(Lower(url), names) IN
         IF m.found THEN m.name ELSE names[1]

\* Names of candidate tools and URLs the LLM generates.
ToolNames ==
    {<<"g", "e", "o", "_", "w", "t", "h", "r">>,
     <<"W", "T", "H", "R", "_", "a", "p", "i">>,
     <<"s", "t", "o", "k", " ", "m", "a", "p">>,
     <<"a", "p", "i">>}
GeneratedUrls ==
    {<<"x", "/", "w", "t", "h", "r">>,
     <<"X", "/", "S", "T", "O", "K">>,
     <<"x", "/", "a", "p", "i">>,
     <<"x", "/", "s", "t", "o", "k", "/", "w", "t", "h", "r">>,
     <<"x">>}

RECURSIVE CandidateListsOf(_)
CandidateListsOf(n) ==
    IF n = 0 THEN {<<>>}
    ELSE CandidateListsOf(n - 1)
         \cup {Append(l, name) : l \in {c \in CandidateListsOf(n - 1) : Len(c) = n - 1},
                                 name \in ToolNames}
CandidateLists ==
    {l \in CandidateListsOf(MaxCandidates) : \A i, j \in DOMAIN l : i # j => l[i] # l[j]}

SelIdle == [called |-> FALSE, url |-> <<>>, names |-> <<>>, selected |-> <<>>]

\* One call of the heuristic.
SelectTool(url, names) ==
    /\ ~sel.called
    /\ sel' = [called |-> TRUE, url |-> url, names |-> names,
               selected |-> ExtractToolNameFromUrl(url, names)]
    /\ UNCHANGED <<tools, definitions, op, raised, toolResult, lookup, http, wf, xf, ai, conc, runs, api, simple, ps, execs, tasks, envelope>>

\* The call has returned; the heuristic keeps nothing of it.
SelectForget ==
    /\ sel.called
    /\ sel' = SelIdle
    /\ UNCHANGED <<tools, definitions, op, raised, toolResult, lookup, http, wf, xf, ai, conc, runs, api, simple, ps, execs, tasks, envelope>>

(***************************************************************************)
(* AIOrchestrator                                                          *)
(***************************************************************************)
MaxToolIterations == 2  \* largest max_tool_iterations an orchestrator is given
MaxToolCalls == 2       \* most function_call items in one LLM response

\* A function_call item of response.output: the tool name and the
\* arguments, a dict or a JSON text; valid_json tells whether json.loads
\* accepts the text.
ToolCalls ==
    {c \in [name : {"alpha", "ghost"}, arguments : {<<>>, [q |-> "int:1"]},
            valid_json : BOOLEAN] :
        c.valid_json \/ (c.name = "alpha" /\ c.arguments = <<>>)}

\* What client.responses.create / parse does: raises, or returns a response
\* with its function_call items; has_parsed is hasattr(response,
\* "output_parsed").
LlmResponses ==
    [raises : BOOLEAN,
     tool_calls : UNION {[1..n -> ToolCalls] : n \in 0..MaxToolCalls},
     has_parsed : BOOLEAN]

AiStarted(method, text_format, max_tool_iterations) ==
    [pc |-> "awaiting_llm", method |-> method, text_format |-> text_format,
     max_tool_iterations |-> max_tool_iterations, llm_calls |-> 1,
     tool_calls |-> <<>>, tool_results |-> <<>>, result |-> "none", exc |-> "none"]

AiIdle == [AiStarted("none", FALSE, 0) EXCEPT !.pc = "idle", !.llm_calls = 0]

AiReturn(a, result) == [a EXCEPT !.pc = "returned", !.result = result]

\* run, lines 68-97: up to the await of the one LLM call.
AiRun(text_format) ==
    /\ ai.pc \in {"idle", "returned", "raised"}
    /\ ai' = AiStarted("run", text_format, 0)
    /\ UNCHANGED <<tools, definitions, op, raised, toolResult, lookup, http, wf, xf, conc, runs, api, simple, ps, execs, sel, tasks, envelope>>

\* run_with_tool_loop, lines 149-166: the loop is entered only when
\* 0 < max_tool_iterations; otherwise line 178 reads `response`, which was
\* never assigned.
AiRunWithToolLoop(text_format, max_tool_iterations) ==
    /\ ai.pc \in {"idle", "returned", "raised"}
    /\ ai' = IF 0 < max_tool_iterations
             THEN AiStarted("run_with_tool_loop", text_format, max_tool_iterations)
             ELSE [AiStarted("run_with_tool_loop", text_format, max_tool_iterations)
                      EXCEPT !.pc = "raised", !.llm_calls = 0, !.exc = "UnboundLocalError"]
    /\ UNCHANGED <<tools, definitions, op, raised, toolResult, lookup, http, wf, xf, conc, runs, api, simple, ps, execs, sel, tasks, envelope>>

\* The answer of the LLM call: run, lines 85-86 and 100-126;
\* run_with_tool_loop, lines 168-175.
AiAfterLlm(a, answer) ==
    IF answer.raises THEN [a EXCEPT !.pc = "raised", !.exc = "APIError"]
    ELSE IF a.text_format /\ answer.has_parsed THEN AiReturn(a, "output_parsed")
    ELSE IF a.method = "run" /\ ~a.text_format /\ answer.tool_calls # <<>>
    THEN [a EXCEPT !.pc = "executing", !.tool_calls = answer.tool_calls]
    ELSE AiReturn(a, "response")

AiLlmAnswer(answer) ==
    /\ ai.pc = "awaiting_llm"
    /\ ai' = AiAfterLlm(ai, answer)
    /\ UNCHANGED <<tools, definitions, op, raised, toolResult, lookup, http, wf, xf, conc, runs, api, simple, ps, execs, sel, tasks, envelope>>

\* run, lines 119-124: every tool call was executed.
AiResubmit(a) == [a EXCEPT !.pc = "awaiting_llm", !.llm_calls = @ + 1]

AiBundle(a) == AiReturn(a, "bundle")

\* run, lines 107-124: json.loads of the arguments (JSONDecodeError
\* propagates), one await of executor.execute, and the return of the bundle
\* after the last one.
AiExecuteToolCall(elapsed) ==
    /\ ai.pc = "executing"
    /\ LET tool_call == ai.tool_calls[Len(ai.tool_results) + 1]
           result == ExecuteOutcome(tools, definitions, tool_call.name,
                                    tool_call.arguments, elapsed, NoBackend).result
           a == [ai EXCEPT !.tool_results = Append(@, result)]
       IN ai' = IF ~tool_call.valid_json
                THEN [ai EXCEPT !.pc = "raised", !.exc = "JSONDecodeError"]
                ELSE IF Len(a.tool_results) = Len(a.tool_calls) THEN AiBundle(a) ELSE a
    /\ UNCHANGED <<tools, definitions, op, raised, toolResult, lookup, http, wf, xf, conc, runs, api, simple, ps, execs, sel, tasks, envelope>>

(***************************************************************************)
(* Concurrent ToolExecutor.execute calls on one asyncio event loop.        *)
(* conc.loop is the call whose tool code occupies the loop thread (0: the  *)
(* loop is free to run any ready task).                                    *)
(***************************************************************************)
CallIds == {1, 2}

\* _execute_tool: where the implementation runs.  A coroutine function is
\* awaited and suspends at its own awaits; a decorated plain function goes
\* to run_in_executor; the execute of an object is called in the
\* expression `await tool.execute(**arguments)`, on the loop thread, whether
\* it is a coroutine function or not.
RunsWhere(tool) ==
    IF IsAsync(tool) THEN "suspended"
    ELSE IF Shape(tool) = "decorated" THEN "in_executor"
    ELSE "on_loop"

NoCall == [pc |-> "idle", tool_name |-> "", arguments |-> <<>>, result |-> NoResult]
ConcIdle == [loop |-> 0, calls |-> [i \in CallIds |-> NoCall]]

\* execute up to the point where the implementation is running: an unknown
\* name or invalid arguments end the call at once.
ConcStart(i, tool_name, arguments, elapsed) ==
    /\ conc.loop = 0
    /\ conc.calls[i].pc \in {"idle", "done"}
    /\ LET call == [NoCall EXCEPT !.tool_name = tool_name, !.arguments = arguments]
           early == ExecuteOutcome(tools, definitions, tool_name, arguments, elapsed, NoBackend)
       IN IF early.result.invoked = 0
          THEN conc' = [conc EXCEPT !.calls[i] =
                            [call EXCEPT !.pc = "done", !.result = early.result]]
          ELSE LET where == RunsWhere(tools[tool_name]) IN
               conc' = [loop |-> IF where = "on_loop" THEN i ELSE 0,
                        calls |-> [conc.calls EXCEPT ![i] = [call EXCEPT !.pc = where]]]
    /\ UNCHANGED <<tools, definitions, op, raised, toolResult, lookup, http, wf, xf, ai, runs, api, simple, ps, execs, sel, tasks, envelope>>

\* The implementation finishes and execute returns its ToolResult.  A call
\* that waits on the loop resumes only when the loop is free.
ConcFinish(i, elapsed) ==
    /\ conc.calls[i].pc \in {"suspended", "in_executor", "on_loop"}
    /\ conc.loop \in {0, i}
    /\ LET call == conc.calls[i]
           out == ExecuteOutcome(tools, definitions, call.tool_name, call.arguments,
                                 elapsed, NoBackend)
       IN conc' = [loop |-> 0,
                   calls |-> [conc.calls EXCEPT ![i] =
                                 [call EXCEPT !.pc = "done", !.result = out.result]]]
    /\ UNCHANGED <<tools, definitions, op, raised, toolResult, lookup, http, wf, xf, ai, runs, api, simple, ps, execs, sel, tasks, envelope>>

(***************************************************************************)
(* Two execute_workflow runs of one WorkflowOrchestrator, interleaved at   *)
(* their awaits.  Everything a run computes is held in local variables of  *)
(* its own coroutine frame; the orchestrator's attributes are only read.   *)
(***************************************************************************)
WfIdle == [WfStarted([tool_ids |-> <<>>, format_response |-> FALSE], FALSE) EXCEPT !.pc = "idle"]
RunIds == {1, 2}
RunsIdle == [i \in RunIds |-> WfIdle]

\* The frame a run resumes with: its own locals.
RunLocalsShared(rs, i) ==
    [rs[i] EXCEPT !.http_spec = rs[CHOOSE j \in RunIds : j # i].http_spec]

RunLocals(rs, i) == rs[i]

\* execute_workflow up to its first await.
RunStart(i, request, use_db) ==
    /\ runs[i].pc \in {"idle", "done", "propagated"}
    /\ runs' = [runs EXCEPT ![i] =
                   IF use_db
                   THEN WfCall(WfStarted(request, use_db), "db.get_tools")
                   ELSE WfRegistryFallback(WfStarted(request, use_db), tools)]
    /\ UNCHANGED <<tools, definitions, op, raised, toolResult, lookup, http, wf, xf, ai, conc, api, simple, ps, execs, sel, tasks, envelope>>

\* The awaited collaborator answers and the run continues to its next
\* await, or to its return.
RunResume(i) ==
    /\ LET w == RunLocals(runs, i) IN
       \/ /\ w.pc = "tool_retrieval"
          /\ \E db_raises \in BOOLEAN,
                rows \in {r \in DbContents : Len(r) <= 1 /\ \A k \in DOMAIN r : r[k].convertible} :
                runs' = [runs EXCEPT ![i] = WfAfterDb(w, db_raises, rows, tools)]
       \/ /\ w.pc = "llm_selection"
          /\ \E answer \in {a \in LlmAnswers : a.kind = "raises" \/ a.content = "valid"} :
                runs' = [runs EXCEPT ![i] = WfAfterLlm([w EXCEPT !.llm_answer = answer], answer)]
       \/ /\ w.pc = "api_execution"
          /\ \E script \in {<<Ok200>>, <<NotFound404>>, <<TimedOut, TimedOut, TimedOut>>} :
                LET h == HttpRun(HttpStarted(DefaultMaxRetries), script) IN
                runs' = [runs EXCEPT ![i] = WfAfterHttp([w EXCEPT !.http_result = h], h)]
       \/ /\ w.pc = "response_formatting"
          /\ \E answer \in {"raises", "str"} :
                runs' = [runs EXCEPT ![i] = WfAfterFormat([w EXCEPT !.format_answer = answer], answer)]
    /\ UNCHANGED <<tools, definitions, op, raised, toolResult, lookup, http, wf, xf, ai, conc, api, simple, ps, execs, sel, tasks, envelope>>

(***************************************************************************)
(* Specification of the registry and the executor.                         *)
(***************************************************************************)
(***************************************************************************)
(* HTTPClientService.execute: preparing the request                        *)
(***************************************************************************)
StrContentType == <<"C", "o", "n", "t", "e", "n", "t", "-", "T", "y", "p", "e">>
StrContentTypeLower == <<"c", "o", "n", "t", "e", "n", "t", "-", "t", "y", "p", "e">>
StrApplicationJson == <<"a", "p", "p", "l", "i", "c", "a", "t", "i", "o", "n", "/", "j", "s", "o", "n">>

\* HTTPRequestSpec: headers and query_params are Optional dicts, body is
\* None, a dict or a str.
RequestSpecs ==
    [method : {"GET", "POST"},
     headers : {NoDict, [is_none |-> FALSE, d |-> <<>>],
                [is_none |-> FALSE, d |-> (StrAccept :> <<"j">>)],
                [is_none |-> FALSE, d |-> (StrContentType :> <<"t">>)],
                [is_none |-> FALSE, d |-> (StrContentTypeLower :> <<"t">>)]},
     query_params : {NoDict, [is_none |-> FALSE, d |-> (StrSymbol :> <<"I">>)]},
     body : {"None", "dict", "str"}]

\* execute, lines 125-140.  `spec.headers or {}` is the dict of the spec
\* itself when that dict is not empty, and a new dict otherwise; the
\* default Content-Type is assigned into it.  The result is the headers and
\* parameters sent and the spec as it is after the statements.
PrepareRequest(spec) ==
    LET aliased == ~spec.headers.is_none /\ DOMAIN spec.headers.d # {}
        headers == IF aliased THEN spec.headers.d ELSE <<>>
        params == IF spec.query_params.is_none THEN <<>> ELSE spec.query_params.d
        sets_default == /\ spec.body = "dict"
                        /\ StrContentType \notin DOMAIN headers
                        /\ StrContentTypeLower \notin DOMAIN headers
        sent == IF sets_default THEN DictSet(headers, StrContentType, StrApplicationJson)
                ELSE headers
    IN [headers |-> sent, params |-> params,
        spec |-> IF aliased THEN [spec EXCEPT !.headers.d = sent] ELSE spec]

EnvelopeIdle ==
    [called |-> FALSE,
     before |-> [method |-> "GET", headers |-> NoDict, query_params |-> NoDict, body |-> "None"],
     after |-> [method |-> "GET", headers |-> NoDict, query_params |-> NoDict, body |-> "None"],
     headers_sent |-> <<>>, pc |-> "idle", status_code |-> 0]

\* One HTTPClientService.execute(spec) against a backend.
HttpExecuteEnvelope(spec, script) ==
    /\ ~envelope.called
    /\ LET p == PrepareRequest(spec)
           h == HttpRun(HttpStarted(DefaultMaxRetries), script)
       IN envelope' = [called |-> TRUE, before |-> spec, after |-> p.spec,
                       headers_sent |-> p.headers, pc |-> h.pc,
                       status_code |-> h.response.status_code]
    /\ UNCHANGED <<tools, definitions, op, raised, toolResult, lookup, http, wf, xf, ai, conc, runs, api, simple, ps, execs, sel, tasks>>

\* The caller drops the spec and the response.
EnvelopeForget ==
    /\ envelope.called
    /\ envelope' = EnvelopeIdle
    /\ UNCHANGED <<tools, definitions, op, raised, toolResult, lookup, http, wf, xf, ai, conc, runs, api, simple, ps, execs, sel, tasks>>

(***************************************************************************)
(* ToolRegistry: projections                                               *)
(***************************************************************************)
ProjectionMethods ==
    {"get_definition", "list_tools", "list_definitions", "get_openai_tools", "has_tool"}

NoValue == [names |-> {}, definitions |-> {}, flag |-> FALSE]

\* A listing that empties the dict it lists.
ProjectionConsuming(reg, defs, method, tool_name) ==
    [tools |-> reg,
     definitions |-> IF method = "list_definitions" THEN <<>> ELSE defs,
     raised |-> IF method = "get_definition" /\ tool_name \notin DOMAIN defs
                THEN "ToolRegistrationError" ELSE "none",
     value |-> NoValue]

\* get_definition, list_tools, list_definitions, get_openai_tools and
\* has_tool: the value returned and the registry after the call.  Each
\* method reads self._tools or self._definitions and assigns neither.
Projection(reg, defs, method, tool_name) ==
    [tools |-> reg,
     definitions |-> defs,
     raised |-> IF method = "get_definition" /\ tool_name \notin DOMAIN defs
                THEN "ToolRegistrationError" ELSE "none",
     value |->
        CASE method = "get_definition" ->
                [NoValue EXCEPT !.definitions =
                    IF tool_name \in DOMAIN defs THEN {defs[tool_name]} ELSE {}]
          [] method = "list_tools" -> [NoValue EXCEPT !.names = DOMAIN reg]
          [] method = "has_tool" -> [NoValue EXCEPT !.flag = (tool_name \in DOMAIN reg)]
          [] OTHER -> [NoValue EXCEPT !.definitions = {defs[n] : n \in DOMAIN defs}]]

Project(method, tool_name) ==
    LET out == Projection(tools, definitions, method, tool_name) IN
    /\ tools' = out.tools
    /\ definitions' = out.definitions
    /\ raised' = out.raised
    /\ op' = OpRec(method, tool_name, NoTool, <<>>, <<>>)
    /\ toolResult' = NoResult
    /\ lookup' = [found |-> <<>>, missing |-> <<>>, value |-> out.value]
    /\ UNCHANGED <<http, wf, xf, ai, conc, runs, api, simple, ps, execs, sel, tasks, envelope>>


(***************************************************************************)
(* Tasks of one event loop calling ToolRegistry.register                   *)
(***************************************************************************)
MaxTasks == 2           \* tasks on the event loop
TaskIds == 1..MaxTasks

NoTask == [pc |-> "idle", tool |-> NoTool, raised |-> "none", overlapped |-> FALSE]
TasksIdle == [i \in TaskIds |-> NoTask]

\* register with a suspension point between its check and its writes.
RegisterSuspendsAfterCheck == {"checked"}

\* The points of register at which the event loop may run another task:
\* register is a plain def without await, so there are none.
RegisterSuspensionPoints == {}

\* A task is created and runs up to the network call it awaits before it
\* registers its tool.
TaskSpawn(i, tool) ==
    /\ tasks[i].pc = "idle"
    /\ LET others == {j \in TaskIds : tasks[j].pc = "awaiting"} IN
       tasks' = [j \in TaskIds |->
                    IF j = i
                    THEN [NoTask EXCEPT !.pc = "awaiting", !.tool = tool,
                                        !.overlapped = (others # {})]
                    ELSE IF j \in others
                    THEN [tasks[j] EXCEPT !.overlapped = TRUE]
                    ELSE tasks[j]]
    /\ UNCHANGED <<tools, definitions, op, raised, toolResult, lookup, http, wf, xf, ai, conc, runs, api, simple, ps, execs, sel, envelope>>

\* The event loop resumes a task, which runs to its next suspension point:
\* after the network call it calls register(tool) and ends.
TaskResume(i) ==
    /\ tasks[i].pc \in {"awaiting", "checked"}
    /\ LET tool == tasks[i].tool
           out == RegisterOutcome(tools, definitions, tool)
       IN IF tasks[i].pc = "awaiting" /\ "checked" \in RegisterSuspensionPoints
                /\ out.raised = "none"
          THEN /\ tasks' = [tasks EXCEPT ![i].pc = "checked"]
               /\ UNCHANGED <<tools, definitions>>
          ELSE IF tasks[i].pc = "checked"
          THEN /\ tools' = Put(tools, tool.name, tool)
               /\ definitions' = Put(definitions, tool.name, ToolDefinition(tool))
               /\ tasks' = [tasks EXCEPT ![i].pc = "done"]
          ELSE /\ tools' = out.tools
               /\ definitions' = out.definitions
               /\ tasks' = [tasks EXCEPT ![i].pc = "done", ![i].raised = out.raised]
    /\ UNCHANGED <<op, raised, toolResult, lookup, http, wf, xf, ai, conc, runs, api, simple, ps, execs, sel, envelope>>

HttpIdle == [HttpStarted(0) EXCEPT !.pc = "idle"]
XfIdle == [XfReady([response_path |-> StrNone, response_to_output |-> <<>>], EmptyDict)
             EXCEPT !.pc = "idle"]

Init ==
    /\ tools = <<>>
    /\ definitions = <<>>
    /\ op = OpRec("init", "", NoTool, <<>>, <<>>)
    /\ raised = "none"
    /\ toolResult = NoResult
    /\ lookup = NoLookup
    /\ http = HttpIdle
    /\ wf = WfIdle
    /\ xf = XfIdle
    /\ ai = AiIdle
    /\ conc = ConcIdle
    /\ runs = RunsIdle
    /\ api = ApiIdle
    /\ simple = SimpleIdle
    /\ ps = PsIdle
    /\ execs = <<>>
    /\ sel = SelIdle
    /\ tasks = TasksIdle
    /\ envelope = EnvelopeIdle

Next ==
    \/ \E tool \in ToolObjects : Register(tool)
    \/ \E tool_name \in RequestNames : Unregister(tool_name)
    \/ \E tool_name \in RequestNames : Get(tool_name)
    \/ Clear
    \/ \E tool_names \in NameLists : GetMultiple(tool_names)
    \/ \E tool_name \in RequestNames, arguments \in Arguments, elapsed \in 0..MaxElapsed :
          Execute(tool_name, arguments, elapsed, NoBackend)

Spec == Init /\ [][Next]_vars

\* The arguments a config-backed tool is called with: its optional
\* property absent, a str, or an int where a str is declared.
ApiArguments == {a \in Arguments : DOMAIN a \subseteq {"q"} /\ \A f \in DOMAIN a : a[f] # "str:7"}

\* The executor over a registry of config-backed tools.
NextApiTool ==
    \/ \E tool \in ApiToolObjects : Register(tool)
    \/ \E tool_name \in RequestNames, arguments \in ApiArguments,
          elapsed \in 0..MaxElapsed, backend \in ApiBackends :
          Execute(tool_name, arguments, elapsed, backend)

SpecApiTool == Init /\ [][NextApiTool]_vars

\* The arguments and backends of the directly called tool.
RequestArguments ==
    {a \in Arguments : /\ DOMAIN a \in {{}, {"q"}, {"q", "z"}}
                       /\ \A f \in DOMAIN a : a[f] = (IF f = "q" THEN "int:1" ELSE "str:x")}
RequestBackends ==
    {b \in ApiBackends : b.answer \in {Ok200, TimedOut} /\ b.json \in {"plain", "none"}}

\* What the backend answers to the first request and would answer to a
\* second one.
RequestScripts ==
    {<<b>> : b \in RequestBackends}
    \cup {<<[answer |-> a, json |-> "none"], [answer |-> Ok200, json |-> "plain"]>> :
             a \in {TimedOut, Error500}}

NextApiRequest ==
    \/ \E config \in ApiConfigs : ApiConstruct(config)
    \/ \E env \in Environments : SetEnv(env)
    \/ \E arguments \in RequestArguments, script \in RequestScripts :
          ApiExecute(arguments, script)

SpecApiRequest == Init /\ [][NextApiRequest]_vars

\* The tool without authentication, called through the executor with its
\* optional inputs supplied or omitted.
ExecutorArguments ==
    {a \in Arguments : \A f \in DOMAIN a : a[f] \in {"str:x", "int:1"}}

NextApiViaExecutor ==
    \/ \E config \in {c \in ApiConfigs : c.auth.method = "none" /\ c.headers = EmptyStatic} :
          ApiConstruct(config)
    \/ \E arguments \in ExecutorArguments, script \in RequestScripts :
          ExecutorApiExecute(arguments, script)

SpecApiViaExecutor == Init /\ [][NextApiViaExecutor]_vars

NextSimpleTool ==
    \/ \E spec \in SimpleToolSpecs, parameters \in Parameters,
          script \in {<<Ok200>>, <<NotFound404>>, <<TimedOut, TimedOut, TimedOut>>} :
          SimpleExecute(spec, parameters, script)
    \/ SimpleForget

SpecSimpleTool == Init /\ [][NextSimpleTool]_vars

NextPrompt ==
    \/ \E mode \in {"normal", "mcp"}, max_retries \in 0..MaxRetriesBound :
          PromptStart(mode, max_retries)
    \/ \E error \in LlmErrors : PromptLlmRaises(error)
    \/ \E content \in LlmContents : PromptLlmAnswers(content)

SpecPrompt == Init /\ [][NextPrompt]_vars

NextSelect ==
    \/ \E url \in GeneratedUrls, names \in CandidateLists : SelectTool(url, names)
    \/ SelectForget

SpecSelect == Init /\ [][NextSelect]_vars

\* Registries holding blocking and non-blocking implementations.
ConcurrentRegistries ==
    {[n \in Names |-> [name |-> n, variant |-> IF n = "alpha" THEN v ELSE w]] :
        v \in {"dec_sync", "obj_blocking"}, w \in {"dec_async", "obj_str", "obj_blocking"}}

InitConcurrent ==
    /\ tools \in ConcurrentRegistries
    /\ definitions = [n \in DOMAIN tools |-> ToolDefinition(tools[n])]
    /\ op = OpRec("init", "", NoTool, <<>>, <<>>)
    /\ raised = "none"
    /\ toolResult = NoResult
    /\ lookup = NoLookup
    /\ http = HttpIdle
    /\ wf = WfIdle
    /\ xf = XfIdle
    /\ ai = AiIdle
    /\ conc = ConcIdle
    /\ runs = RunsIdle
    /\ api = ApiIdle
    /\ simple = SimpleIdle
    /\ ps = PsIdle
    /\ execs = <<>>
    /\ sel = SelIdle
    /\ tasks = TasksIdle
    /\ envelope = EnvelopeIdle

NextConcurrent ==
    \/ \E i \in CallIds, tool_name \in RequestNames, arguments \in ApiArguments,
          elapsed \in 0..MaxElapsed : ConcStart(i, tool_name, arguments, elapsed)
    \/ \E i \in CallIds, elapsed \in 0..MaxElapsed : ConcFinish(i, elapsed)

SpecConcurrent == InitConcurrent /\ [][NextConcurrent]_vars

\* Several calls, one after the other, on an executor whose registry is
\* not changed.
NextExecutorCalls ==
    \E tool_name \in RequestNames, arguments \in ApiArguments, elapsed \in 0..MaxElapsed :
       ExecuteNext(tool_name, arguments, elapsed)

SpecExecutorCalls == InitConcurrent /\ [][NextExecutorCalls]_vars

NextHttp ==
    \/ \E max_retries \in 0..MaxRetriesBound : HttpStart(max_retries)
    \/ \E answer \in Answers : HttpAttempt(answer)

SpecHttp == Init /\ [][NextHttp]_vars

\* The registry an orchestrator is constructed over.
WorkflowRegistries ==
    {<<>>,
     [n \in {"alpha"} |-> [name |-> n, variant |-> "obj_str"]],
     [n \in {"alpha"} |-> [name |-> n, variant |-> "dec_async"]],
     [n \in Names |-> [name |-> n, variant |-> "obj_str"]]}

InitWorkflow ==
    /\ tools \in WorkflowRegistries
    /\ definitions = [n \in DOMAIN tools |-> ToolDefinition(tools[n])]
    /\ op = OpRec("init", "", NoTool, <<>>, <<>>)
    /\ raised = "none"
    /\ toolResult = NoResult
    /\ lookup = NoLookup
    /\ http = HttpIdle
    /\ wf = WfIdle
    /\ xf = XfIdle
    /\ ai = AiIdle
    /\ conc = ConcIdle
    /\ runs = RunsIdle
    /\ api = ApiIdle
    /\ simple = SimpleIdle
    /\ ps = PsIdle
    /\ execs = <<>>
    /\ sel = SelIdle
    /\ tasks = TasksIdle
    /\ envelope = EnvelopeIdle

NextWorkflow ==
    \/ \E request \in WorkflowRequests, use_db \in BOOLEAN : WfStart(request, use_db)
    \/ \E db_raises \in BOOLEAN, rows \in DbContents : WfDbAnswer(db_raises, rows)
    \/ \E answer \in LlmAnswers : WfLlmAnswer(answer)
    \/ \E script \in BackendScripts : WfHttpAnswer(script)
    \/ \E answer \in FormatAnswers : WfFormatAnswer(answer)

SpecWorkflow == InitWorkflow /\ [][NextWorkflow]_vars

NextInterleaved ==
    \/ \E i \in RunIds, use_db \in BOOLEAN,
          request \in {r \in WorkflowRequests :
                          Len(r.tool_ids) = 1 /\ r.tool_ids[1] \in {"alpha", "ghost"}} :
          RunStart(i, request, use_db)
    \/ \E i \in RunIds : RunResume(i)

SpecInterleaved == InitWorkflow /\ [][NextInterleaved]_vars

\* An AIOrchestrator over a fixed registry.
NextAI ==
    \/ \E text_format \in BOOLEAN : AiRun(text_format)
    \/ \E text_format \in BOOLEAN, max_tool_iterations \in 0..MaxToolIterations :
          AiRunWithToolLoop(text_format, max_tool_iterations)
    \/ \E answer \in LlmResponses : AiLlmAnswer(answer)
    \/ \E elapsed \in 0..MaxElapsed : AiExecuteToolCall(elapsed)

SpecAI == InitWorkflow /\ [][NextAI]_vars

InitTransform ==
    /\ tools = <<>>
    /\ definitions = <<>>
    /\ op = OpRec("init", "", NoTool, <<>>, <<>>)
    /\ raised = "none"
    /\ toolResult = NoResult
    /\ lookup = NoLookup
    /\ http = HttpIdle
    /\ wf = WfIdle
    /\ xf \in {XfReady(m, b) : m \in FieldMappings, b \in ResponseBodies}
    /\ ai = AiIdle
    /\ conc = ConcIdle
    /\ runs = RunsIdle
    /\ api = ApiIdle
    /\ simple = SimpleIdle
    /\ ps = PsIdle
    /\ execs = <<>>
    /\ sel = SelIdle
    /\ tasks = TasksIdle
    /\ envelope = EnvelopeIdle

NextTransform == Transform

SpecTransform == InitTransform /\ [][NextTransform]_vars

(***************************************************************************)
(* Properties                                                              *)
(***************************************************************************)
\* The arguments violate the input schema: a required property is absent,
\* or a supplied property has a value its declared type does not accept.
InvalidArguments(input_schema, arguments) ==
    /\ input_schema.hasProperties
    /\ \E f \in DOMAIN input_schema.properties :
          \/ f \in input_schema.required /\ f \notin DOMAIN arguments
          \/ f \in DOMAIN arguments /\ Coerce(input_schema.properties[f], arguments[f]) = "invalid"

ExecuteFailureCase ==
    \/ op.tool_name \notin DOMAIN tools
    \/ InvalidArguments(definitions[op.tool_name].input_schema, op.arguments)
    \/ Behaviour(tools[op.tool_name]).raises

AllAnswers500 ==
    /\ http.answers # <<>>
    /\ \A i \in DOMAIN http.answers :
          http.answers[i].kind = "response" /\ http.answers[i].status = 500

\* C2: with max_retries = R and a backend that answers every attempt with
\* HTTP 500, execute sends exactly R + 1 requests and then raises.
RetryBoundIsMaxRetriesPlusOne ==
    (HttpDone(http) /\ AllAnswers500) =>
        /\ http.pc = "raised"
        /\ Len(http.answers) = http.max_retries + 1

\* C3: when the backend answers the request with a 4xx status, execute
\* sends exactly one request and returns an envelope carrying that status
\* code and the response body.
ClientErrorReturnedAsIs ==
    (HttpDone(http) /\ Is4xx(http.answers[1])) =>
        /\ http.pc = "returned"
        /\ Len(http.answers) = 1
        /\ http.response.status_code = http.answers[1].status
        /\ http.response.body = ParseBody(http.answers[1])

\* C4: register(tool) with a name that is already present raises
\* ToolRegistrationError and leaves the registry unchanged: the name still
\* maps to the first-registered tool and definition, and no entry is added.
DuplicateRegistrationRejected ==
    [][(op'.name = "register" /\ op'.tool.name \in DOMAIN tools) =>
          /\ raised' = "ToolRegistrationError"
          /\ tools' = tools
          /\ definitions' = definitions]_vars

\* A second tool object was offered under a registered name and refused.
DuplicateRegistrationWitness ==
    /\ op.name = "register"
    /\ Shape(op.tool) # "other"
    /\ op.tool.name \in DOMAIN tools
    /\ tools[op.tool.name] # op.tool
    /\ raised = "ToolRegistrationError"

\* C5: get_multiple(names) returns (found, missing) where the names of the
\* found tools are exactly the requested names that are registered, missing
\* holds exactly the requested names that are not, the two do not overlap,
\* and no exception is raised.
GetMultiplePartition ==
    op.name = "get_multiple" =>
        LET requested == ToSet(op.tool_names)
            found_names == {lookup.found[i].name : i \in DOMAIN lookup.found}
            missing == ToSet(lookup.missing)
        IN /\ raised = "none"
           /\ found_names = requested \cap DOMAIN tools
           /\ \A i \in DOMAIN lookup.found :
                 lookup.found[i] = tools[lookup.found[i].name]
           /\ missing = requested \ DOMAIN tools
           /\ found_names \cap missing = {}
           /\ found_names \cup missing = requested
           /\ Len(lookup.found) + Len(lookup.missing) = Len(op.tool_names)

\* A lookup that found one requested name and missed another.
GetMultipleWitness ==
    /\ op.name = "get_multiple"
    /\ lookup.found # <<>>
    /\ lookup.missing # <<>>

\* The requested ids the retrieval source of this run does not hold: the
\* database rows that convert, or the registry when no database service is
\* configured or its query raised.
UnretrievableIds ==
    LET source == IF wf.use_db /\ wf.db_answer.asked /\ ~wf.db_answer.raises
                  THEN {wf.db_answer.rows[i].name :
                           i \in {j \in DOMAIN wf.db_answer.rows : wf.db_answer.rows[j].convertible}}
                  ELSE DOMAIN tools
    IN ToSet(wf.request.tool_ids) \ source

WfFinished == wf.pc \in {"done", "propagated"}

WfTagged(stage) ==
    /\ wf.pc = "done"
    /\ wf.response.status = "error"
    /\ wf.response.error_stage = stage
    /\ wf.response.error # <<>>

\* C6: execute_workflow tags every failure with the stage that failed: an
\* id that cannot be retrieved gives error_stage 'tool_retrieval' and an
\* error naming the id; the LLM raising or answering with something that is
\* not a parseable http_spec gives 'llm_selection'; the HTTP service raising
\* gives 'api_execution'.
WorkflowStageTagging ==
    WfFinished =>
        /\ UnretrievableIds # {} =>
              /\ WfTagged("tool_retrieval")
              /\ UnretrievableIds \subseteq ToSet(wf.response.error)
        /\ (wf.llm_answer.kind # "none"
            /\ ~(wf.llm_answer.kind = "http_spec" /\ wf.llm_answer.content = "valid")) =>
              WfTagged("llm_selection")
        /\ wf.http_result.pc = "raised" => WfTagged("api_execution")

\* A run in which the LLM answered with a dict that is no HTTPRequestSpec.
WorkflowStageTaggingWitness ==
    /\ wf.pc = "done"
    /\ wf.llm_answer.kind = "http_spec"
    /\ wf.llm_answer.content = "invalid"
    /\ wf.response.error_stage = "llm_selection"

\* C7: when stages 1-4 succeed and formatting is requested, a failure of the
\* formatting LLM call leaves the workflow successful: status 'success',
\* the raw response present, formatted_response None.
FormattingFailureNonFatal ==
    (WfFinished /\ wf.format_answer = "raises") =>
        /\ wf.pc = "done"
        /\ wf.response.status = "success"
        /\ wf.response.raw_response.present
        /\ wf.response.raw_response.status_code = wf.http_result.response.status_code
        /\ wf.response.raw_response.body = wf.http_result.response.body
        /\ wf.response.formatted_response = "None"

\* A run whose formatting call raised after a successful API call.
FormattingFailureWitness ==
    /\ wf.pc = "done"
    /\ wf.request.format_response
    /\ wf.http_result.pc = "returned"
    /\ wf.format_answer = "raises"
    /\ wf.response.status = "success"

\* C8: whatever the collaborators do (raise at any call, return values of an
\* unexpected type such as non-string formatted content), execute_workflow
\* returns a WorkflowResponse with status 'success' or 'error'; no exception
\* reaches the caller.
WorkflowNeverRaises ==
    WfFinished =>
        /\ wf.pc = "done"
        /\ wf.raised = "none"
        /\ wf.response.status \in {"success", "error"}

\* C9: with response_path "Global Quote" and response_to_output
\* {"price": "05. price"} (price a number), the body
\* {"Global Quote": {"05. price": "150.25"}} yields {"price": 150.25}; in
\* general a mapped response field present under the working object appears
\* in the output under its output_field name, coerced to the declared type.
MappedFieldAppearsInOutput ==
    xf.pc = "done" =>
        LET w == WorkingObject(xf.response_data, xf.mapping.response_path)
            r2o == xf.mapping.response_to_output
        IN /\ (xf.mapping = ExampleMapping /\ xf.response_data = ExampleBody) =>
                 /\ xf.raised = "none"
                 /\ xf.output = [price |-> JFloat("150.25")]
           /\ (w.raised = "none" /\ w.data.t = "dict") =>
                 \A o \in DOMAIN r2o :
                    (r2o[o] \in DOMAIN w.data.d /\ w.data.d[r2o[o]] = JStr("150.25")
                     /\ OutputType(o) = "number") =>
                        /\ xf.raised = "none"
                        /\ o \in DOMAIN xf.output
                        /\ xf.output[o] = JFloat("150.25")

\* The dotted path of a response field does not exist in the working
\* object: a segment is absent, or an intermediate value is not an object.
RECURSIVE PathMissing(_, _)
PathMissing(value, keys) ==
    IF keys = <<>> THEN FALSE
    ELSE \/ value.t # "dict"
         \/ Head(keys) \notin DOMAIN value.d
         \/ PathMissing(value.d[Head(keys)], Tail(keys))

WithoutField(mapping, o) ==
    [mapping EXCEPT !.response_to_output =
        [x \in (DOMAIN mapping.response_to_output) \ {o} |-> mapping.response_to_output[x]]]

\* C10: a mapped response field whose dotted path does not exist in the
\* working object is omitted from the output; the other mapped fields are
\* unaffected (the outcome is the one the mapping without that field
\* gives), and when no mapped path exists the call succeeds with an empty
\* output.
MissingFieldOmitted ==
    xf.pc = "done" =>
        LET w == WorkingObject(xf.response_data, xf.mapping.response_path)
            r2o == xf.mapping.response_to_output
            gone == {o \in DOMAIN r2o : PathMissing(w.data, SplitDots(r2o[o]))}
        IN w.raised = "none" =>
              /\ \A o \in gone :
                    /\ o \notin DOMAIN xf.output
                    /\ LET rest == TransformResponse(WithoutField(xf.mapping, o), xf.response_data)
                       IN xf.raised = rest.raised /\ xf.output = rest.output
              /\ gone = DOMAIN r2o => (xf.raised = "none" /\ xf.output = <<>>)

\* One mapped path is missing while another mapped field is delivered.
MissingFieldOmittedWitness ==
    /\ xf.pc = "done"
    /\ xf.raised = "none"
    /\ LET w == WorkingObject(xf.response_data, xf.mapping.response_path)
           r2o == xf.mapping.response_to_output
       IN /\ w.raised = "none"
          /\ \E o \in DOMAIN r2o : PathMissing(w.data, SplitDots(r2o[o]))
          /\ xf.output # <<>>

\* The Python type of a returned value is the one the schema type names.
TypeMatches(schema_type, value) ==
    \/ schema_type = "string" /\ value = "str"
    \/ schema_type = "object" /\ value = "dict"

\* The last execute reached a registered tool with valid arguments, and the
\* implementation returned a value of another type than output_schema
\* declares.
OutputMismatchCase ==
    /\ op.name = "execute"
    /\ op.tool_name \in DOMAIN tools
    /\ ~InvalidArguments(definitions[op.tool_name].input_schema, op.arguments)
    /\ LET tool == tools[op.tool_name] IN
          /\ ~Behaviour(tool).raises
          /\ ~(Shape(tool) = "basetool" /\ ~IsAsync(tool))
          /\ ~TypeMatches(definitions[op.tool_name].output_schema.type, Behaviour(tool).value)

\* C11: output validation never fails a call: when the implementation
\* returns a value whose type does not match the type output_schema
\* declares, execute returns success=True with data equal to the raw
\* returned value.
OutputMismatchStillSucceeds ==
    OutputMismatchCase =>
        /\ toolResult.success = TRUE
        /\ toolResult.data = Behaviour(tools[op.tool_name]).value

\* The backend of the last call failed the request of a config-backed tool:
\* a 4xx or 5xx status, a timeout, a network failure, or a body that is not
\* JSON.
BackendFailureCase ==
    /\ op.name = "execute"
    /\ op.tool_name \in DOMAIN tools
    /\ tools[op.tool_name].variant \in ApiVariants
    /\ ~InvalidArguments(definitions[op.tool_name].input_schema, op.arguments)
    /\ LET a == op.backend.answer IN
          \/ a.kind \in {"TimeoutException", "NetworkError"}
          \/ a.kind = "response" /\ a.status >= 400
          \/ a.kind = "response" /\ a.body \in {"json_invalid", "text", "empty"}

ToolResultShape ==
    op.name = "execute" =>
        /\ toolResult.present
        /\ toolResult.success = TRUE => toolResult.error = <<>>
        /\ toolResult.success = FALSE =>
              toolResult.data = "none" /\ toolResult.error # <<>>
        /\ toolResult.tool_name = op.tool_name
        /\ toolResult.execution_time_ms >= 0

\* A successful result carrying data and a positive execution time.
ToolResultShapeWitness ==
    /\ op.name = "execute"
    /\ toolResult.success = TRUE
    /\ toolResult.data = "dict"
    /\ toolResult.error = <<>>
    /\ toolResult.execution_time_ms > 0

\* Every attempt of the finished call ended in a retryable failure, so the
\* call ended because tenacity stopped retrying.
RetriesExhausted ==
    /\ HttpDone(http)
    /\ http.answers # <<>>
    /\ \A i \in DOMAIN http.answers : RetryOn(AttemptException(http.answers[i]))

\* C15: after retries are exhausted execute raises rather than returning:
\* if the last attempt timed out it raises an error whose message says the
\* request timed out; if every attempt got a 5xx it raises the HTTP status
\* error of the last attempt.
ExhaustedRetriesRaise ==
    RetriesExhausted =>
        LET last == http.answers[Len(http.answers)] IN
        /\ http.pc = "raised"
        /\ last.kind = "TimeoutException" => http.exc = "Exception: Request timed out"
        /\ AllAnswers500 =>
              http.exc = "HTTPStatusError" /\ http.exc_attempt = Len(http.answers)

\* A call whose attempts got a 5xx and then timed out on the last one.
ExhaustedRetriesWitness ==
    /\ RetriesExhausted
    /\ Is5xx(http.answers[1])
    /\ http.answers[Len(http.answers)].kind = "TimeoutException"
    /\ http.exc = "Exception: Request timed out"

\* The first k attempts of the call ended in a retryable failure.
FirstAttemptsFailed(k) ==
    /\ k <= Len(http.answers)
    /\ \A i \in 1..k : RetryOn(AttemptException(http.answers[i]))

\* C16: if the backend fails with a retryable condition on the first k
\* attempts, k <= max_retries, and then answers with a non-5xx response,
\* execute returns that response and has sent exactly k + 1 requests.  So
\* execute does not give up while k <= max_retries (the backend would answer
\* the next request), and a non-5xx answer to request k + 1 is returned.
RetryUntilAnswered ==
    HttpDone(http) =>
        \A k \in 0..http.max_retries :
            /\ (FirstAttemptsFailed(k) /\ Len(http.answers) = k) => http.pc # "raised"
            /\ (/\ FirstAttemptsFailed(k)
                /\ Len(http.answers) = k + 1
                /\ http.answers[k + 1].kind = "response"
                /\ ~Is5xx(http.answers[k + 1])) =>
                    /\ http.pc = "returned"
                    /\ http.response.status_code = http.answers[k + 1].status

ToolLoopReturnsAfterOneRoundTrip ==
    ai.method = "run_with_tool_loop" =>
        /\ ai.llm_calls <= 1
        /\ ai.pc # "executing"
        /\ (ai.pc = "raised" => ai.exc = "APIError")
        /\ (ai.pc = "returned" => ai.result \in {"response", "output_parsed"})

\* The implementation of the tool is blocking: a plain function, or an
\* object whose execute is a plain method.
BlockingTool(tool_name) ==
    tool_name \in DOMAIN tools /\ ~IsAsync(tools[tool_name])

\* C19: execute supports blocking and non-blocking implementations, for
\* decorated functions and for objects exposing execute: a blocking one is
\* run off the event loop, so while one execute call is inside a blocking
\* tool the loop stays free for another concurrently started call to make
\* progress and complete; and a blocking implementation that returns
\* normally gives a successful result.
BlockingToolsDoNotStallLoop ==
    \A i \in CallIds :
        LET call == conc.calls[i] IN
        BlockingTool(call.tool_name) =>
            /\ call.pc \notin {"idle", "done"} => conc.loop = 0
            /\ (call.pc = "done" /\ call.result.invoked = 1
                  /\ ~Behaviour(tools[call.tool_name]).raises) => call.result.success

\* The run w as it would stand had it run alone from the same request with
\* the collaborator answers it received.
RunAlone(w) ==
    LET s0 == WfStarted(w.request, w.use_db)
        s1 == IF ~w.use_db THEN WfRegistryFallback(s0, tools)
              ELSE IF w.db_answer.asked
              THEN WfAfterDb(WfCall(s0, "db.get_tools"), w.db_answer.raises, w.db_answer.rows, tools)
              ELSE WfCall(s0, "db.get_tools")
        s2 == IF s1.pc = "llm_selection" /\ w.llm_answer.kind # "none"
              THEN WfAfterLlm([s1 EXCEPT !.llm_answer = w.llm_answer], w.llm_answer) ELSE s1
        s3 == IF s2.pc = "api_execution" /\ w.http_result.pc # "idle"
              THEN WfAfterHttp([s2 EXCEPT !.http_result = w.http_result], w.http_result) ELSE s2
    IN IF s3.pc = "response_formatting" /\ w.format_answer # "none"
       THEN WfAfterFormat([s3 EXCEPT !.format_answer = w.format_answer], w.format_answer) ELSE s3

\* C20: two execute_workflow runs interleaved at their suspension points are
\* independent when the registry is not mutated: each run's response (and
\* every intermediate value: http_spec, raw response, error) is the one it
\* has when run alone with the same collaborator answers.
InterleavedRunsIndependent ==
    \A i \in RunIds : runs[i].pc # "idle" => runs[i] = RunAlone(runs[i])

\* Both runs finished, one with an error response and one successfully,
\* after their LLM and HTTP steps interleaved (different http_spec each).
InterleavedRunsWitness ==
    /\ runs[1].pc = "done" /\ runs[2].pc = "done"
    /\ runs[1].response.status = "success"
    /\ runs[2].response.status = "error"
    /\ runs[2].response.error_stage = "api_execution"
    /\ runs[1].http_spec # runs[2].http_spec

\* The credential a request carries, where the configuration sends one and
\* no mapped input is written over it.
CredentialSent(config, request) ==
    LET key_name == config.auth.key_name IN
    CASE config.auth.method = "bearer" ->
            SubSeq(request.headers[StrAuthorization], Len(StrBearer) + 1,
                   Len(request.headers[StrAuthorization]))
      [] config.auth.method = "api_key_header" ->
            request.headers[IF key_name.is_none \/ key_name.s = <<>>
                            THEN StrXApiKey ELSE key_name.s]
      [] OTHER ->
            request.params[IF key_name.is_none \/ key_name.s = <<>>
                           THEN StrApikey ELSE key_name.s]

SendsCredential(config) ==
    /\ config.auth.method \in {"bearer", "api_key_header", "api_key_query"}
    /\ config.input_to_params = <<>>

\* secret_ref is written ${NAME}.
IsEnvReference(secret_ref) ==
    /\ ~secret_ref.is_none
    /\ Len(secret_ref.s) >= 3
    /\ secret_ref.s[1] = "$" /\ secret_ref.s[2] = "{" /\ secret_ref.s[Len(secret_ref.s)] = "}"

\* C21: a secret_ref ${NAME} is resolved against the process environment
\* as it is at each execute call: the credential sent is the variable's
\* value at that call; with the variable unset or empty the credential is
\* empty and the request is still built and sent; any other secret_ref is
\* sent as written (none at all sends the empty credential).
SecretResolvedAtCallTime ==
    (api.calls > 0 /\ SendsCredential(api.config) /\ api.request.raised # "AttributeError") =>
        LET ref == api.config.auth.secret_ref
            name == SubSeq(ref.s, 3, Len(ref.s) - 1)
            env == api.request.env
            sent == CredentialSent(api.config, api.request)
        IN IF IsEnvReference(ref)
           THEN IF name \in DOMAIN env /\ env[name] # <<>>
                THEN sent = env[name]
                ELSE sent = <<>>
           ELSE sent = ref.s

\* Two calls of one tool with the variable changed in between carry the two
\* values, and a call made with the variable unset was answered.
SecretResolvedWitness ==
    /\ api.calls = 2
    /\ api.config.auth.method = "bearer"
    /\ IsEnvReference(api.config.auth.secret_ref)
    /\ StrAuthorization \in DOMAIN api.previous.headers
    /\ StrAuthorization \in DOMAIN api.request.headers
    /\ api.previous.headers[StrAuthorization] = StrBearer \o <<"a">>
    /\ api.request.headers[StrAuthorization] = StrBearer
    /\ StrK \notin DOMAIN api.request.env
    /\ api.request.returned

\* The positions of input_to_params whose input field is among the
\* arguments and whose parameter is name.
MappedTo(config, arguments, name) ==
    {i \in DOMAIN config.input_to_params :
        /\ config.input_to_params[i][1] \in DOMAIN arguments
        /\ config.input_to_params[i][2] = name}

CredentialParam(config) ==
    IF config.auth.key_name.is_none \/ config.auth.key_name.s = <<>>
    THEN StrApikey ELSE config.auth.key_name.s

ParamNames(config) ==
    (IF config.params.is_none THEN {} ELSE DOMAIN config.params.d)
    \cup {CredentialParam(config)}
    \cup {config.input_to_params[i][2] : i \in DOMAIN config.input_to_params}

\* The parameters are the three sources laid over one another: a mapped
\* input wins over the credential, the credential over a static parameter.
ParamsLayered(config, request) ==
    \A name \in ParamNames(config) :
        LET mapped == MappedTo(config, request.arguments, name)
            last == CHOOSE i \in mapped : \A j \in mapped : j <= i
        IN IF mapped # {}
           THEN /\ name \in DOMAIN request.params
                /\ request.params[name] = PyStr(request.arguments[config.input_to_params[last][1]])
           ELSE IF config.auth.method = "api_key_query" /\ name = CredentialParam(config)
           THEN /\ name \in DOMAIN request.params
                /\ request.params[name] = ResolveSecret(config.auth.secret_ref, request.env)
           ELSE IF name \in DOMAIN config.params.d
           THEN /\ name \in DOMAIN request.params
                /\ request.params[name] = config.params.d[name]
           ELSE name \notin DOMAIN request.params

\* C28: the query parameters of a config-backed call are the static
\* parameters, then the api_key_query credential under key_name (default
\* apikey), then the mapped inputs that are present in the arguments, each
\* as str(value), a later source overwriting an earlier one.
QueryParamsBuiltInOrder ==
    (api.calls > 0 /\ ~api.config.headers.is_none) =>
        /\ api.request.raised # "AttributeError"
        /\ ParamsLayered(api.config, api.request)
        /\ DOMAIN api.request.params \subseteq ParamNames(api.config)

\* The same with the static parameters given as a dict.
QueryParamsBuiltInOrderFromDict ==
    (api.calls > 0 /\ ~api.config.headers.is_none /\ ~api.config.params.is_none) =>
        /\ api.request.raised # "AttributeError"
        /\ ParamsLayered(api.config, api.request)
        /\ DOMAIN api.request.params \subseteq ParamNames(api.config)

\* A mapped input written over the credential, which was written over a
\* static parameter of the same name.
QueryParamsOverwriteReached ==
    /\ api.calls > 0
    /\ api.config.auth.method = "api_key_query"
    /\ ~api.config.params.is_none
    /\ StrApikey \in DOMAIN api.config.params.d
    /\ CredentialParam(api.config) = StrApikey
    /\ StrApikey \in DOMAIN api.request.params
    /\ api.request.params[StrApikey] = <<"1">>

AuthHeader(config) ==
    CASE config.auth.method = "bearer" -> StrAuthorization
      [] OTHER -> IF config.auth.key_name.is_none \/ config.auth.key_name.s = <<>>
                  THEN StrXApiKey ELSE config.auth.key_name.s

\* The headers are the static headers with the auth-derived header laid
\* over them.
HeadersLayered(config, request) ==
    LET secret == ResolveSecret(config.auth.secret_ref, request.env) IN
    IF config.auth.method \in {"bearer", "api_key_header"}
    THEN /\ DOMAIN request.headers = DOMAIN config.headers.d \cup {AuthHeader(config)}
         /\ request.headers[AuthHeader(config)] =
                (IF config.auth.method = "bearer" THEN StrBearer \o secret ELSE secret)
         /\ \A name \in DOMAIN config.headers.d \ {AuthHeader(config)} :
                request.headers[name] = config.headers.d[name]
    ELSE request.headers = config.headers.d

\* C29: the headers of a config-backed call are static_headers with the
\* auth-derived header (Authorization: Bearer <secret>, or key_name /
\* X-API-Key) replacing a static header of the same name; for none,
\* api_key_query and oauth2 they equal static_headers.  (The stored
\* configuration is never assigned to by a call.)
HeadersBuiltFromStatic ==
    (api.calls > 0 /\ ~api.config.params.is_none) =>
        /\ api.request.raised # "AttributeError"
        /\ HeadersLayered(api.config, api.request)

\* The same with the static headers given as a dict.
HeadersBuiltFromStaticDict ==
    (api.calls > 0 /\ ~api.config.params.is_none /\ ~api.config.headers.is_none) =>
        /\ api.request.raised # "AttributeError"
        /\ HeadersLayered(api.config, api.request)

\* A bearer credential sent in place of a static Authorization header.
HeadersOverwriteReached ==
    /\ api.calls > 0
    /\ api.config.auth.method = "bearer"
    /\ ~api.config.headers.is_none
    /\ StrAuthorization \in DOMAIN api.config.headers.d
    /\ StrAuthorization \in DOMAIN api.request.headers
    /\ api.request.headers[StrAuthorization] = StrBearer \o <<"s", "k">>

\* C22: SimpleToolExecutor routes the parameters by method: for GET, HEAD
\* and OPTIONS they become query_params, every key and value as str, and
\* body is None; for POST, PUT, PATCH and DELETE they become the body
\* unchanged and query_params is None; with empty parameters both are
\* None.
ParametersRoutedByMethod ==
    simple.called =>
        LET q == simple.http_spec.query_params
            b == simple.http_spec.body
            p == simple.parameters
        IN /\ simple.http_spec.method = simple.spec.method
           /\ IF DOMAIN p = {} THEN q.is_none /\ b.is_none
              ELSE IF simple.spec.method \in {"GET", "HEAD", "OPTIONS"}
              THEN /\ b.is_none /\ ~q.is_none
                   /\ DOMAIN q.d = {PyStr(k) : k \in DOMAIN p}
                   /\ \A k \in DOMAIN p : q.d[PyStr(k)] = PyStr(p[k])
              ELSE /\ simple.spec.method \in {"POST", "PUT", "PATCH", "DELETE"}
                   /\ q.is_none /\ ~b.is_none
                   /\ b.d = p

\* A HEAD call whose int and None parameters became the query strings "1"
\* and "None", answered by the backend.
ParametersRoutedWitness ==
    /\ simple.called
    /\ simple.spec.method = "HEAD"
    /\ simple.parameters = [k \in ParamKeys |-> IF k = "str:x" THEN "int:1" ELSE "None"]
    /\ simple.http_spec.query_params.d = (<<"x">> :> <<"1">>) @@ (<<"7">> :> <<"N", "o", "n", "e">>)
    /\ simple.status_code = 200

\* C23: PromptService bounds the LLM retries by its max_retries: a call is
\* never attempted more than max_retries + 1 times, an LLM that fails f <=
\* max_retries times and then answers makes prompt_normal / prompt_mcp
\* return that content after f + 1 calls (so the prompt raises only once
\* max_retries + 1 calls have failed), and the error raised is the last one.
PromptRetriesBoundedByMaxRetries ==
    /\ Len(ps.errors) <= ps.max_retries + 1
    /\ ps.pc = "raised" => /\ Len(ps.errors) = ps.max_retries + 1
                           /\ ps.exc = ps.errors[Len(ps.errors)]
    /\ ps.pc = "returned" => ps.content \in LlmContents

\* The same with the decorator's own bound of three attempts.
PromptRetriesBoundedByThree ==
    /\ Len(ps.errors) <= LlmStopAfterAttempt
    /\ ps.pc = "raised" => /\ Len(ps.errors) = LlmStopAfterAttempt
                           /\ ps.exc = ps.errors[Len(ps.errors)]
    /\ ps.pc = "returned" => ps.content \in LlmContents

\* The stage a collaborator belongs to, by its place in the workflow.
StageIndex(callee) ==
    CASE callee \in {"db.get_tools", "registry.get_multiple"} -> 1
      [] callee = "prompt_mcp" -> 3
      [] callee = "http_client.execute" -> 4
      [] OTHER -> 5

FailedStageIndex(w) ==
    CASE w.response.error_stage = "tool_retrieval" -> 1
      [] w.response.error_stage = "tool_context_generation" -> 2
      [] w.response.error_stage = "llm_selection" -> 3
      [] w.response.error_stage = "api_execution" -> 4
      [] OTHER -> 5

\* C24: the collaborators of a workflow run are called in stage order
\* (retrieval, LLM selection, HTTP execution, formatting), and once a stage
\* has failed no collaborator of a later stage is called: a missing tool id
\* means no LLM and no HTTP call, an llm_selection failure no HTTP call, an
\* api_execution failure no formatting call.
StagesInOrderAndAbortOnFailure ==
    /\ \A i, j \in DOMAIN wf.calls : i < j => StageIndex(wf.calls[i]) <= StageIndex(wf.calls[j])
    /\ \A i, j \in DOMAIN wf.calls :
          (i # j /\ StageIndex(wf.calls[i]) >= 3) => wf.calls[i] # wf.calls[j]
    /\ (wf.pc = "done" /\ wf.response.status = "error") =>
          \A i \in DOMAIN wf.calls : StageIndex(wf.calls[i]) <= FailedStageIndex(wf)
    /\ (WfFinished /\ UnretrievableIds # {}) =>
          \A i \in DOMAIN wf.calls : StageIndex(wf.calls[i]) <= 1
    /\ (wf.llm_answer.kind # "none"
           /\ ~(wf.llm_answer.kind = "http_spec" /\ wf.llm_answer.content = "valid")) =>
          \A i \in DOMAIN wf.calls : StageIndex(wf.calls[i]) <= 3
    /\ wf.http_result.pc = "raised" =>
          \A i \in DOMAIN wf.calls : StageIndex(wf.calls[i]) <= 4

\* A run that asked for formatting and whose HTTP call failed: the database,
\* the LLM and the HTTP service were called, the formatting LLM was not.
StagesAbortWitness ==
    /\ wf.pc = "done"
    /\ wf.request.format_response
    /\ wf.response.status = "error"
    /\ wf.response.error_stage = "api_execution"
    /\ wf.calls = <<"db.get_tools", "prompt_mcp", "http_client.execute">>

\* The call is one that execute rejects before the tool: unknown name or
\* arguments that violate the input schema.
RejectedBeforeTool(call) ==
    \/ call.tool_name \notin DOMAIN tools
    \/ InvalidArguments(definitions[call.tool_name].input_schema, call.arguments)

\* C25: when the tool name is unknown or input validation fails, execute
\* invokes no tool implementation and returns a failure; the failure is
\* local to that call: the next call on the same executor and registry has
\* the outcome it has on an executor that never saw the failed call, and
\* succeeds when its arguments are valid and its tool returns what it
\* declares.
ExecuteFailureIsLocal ==
    \A i \in DOMAIN execs :
        LET call == execs[i] IN
        /\ RejectedBeforeTool(call) =>
              /\ call.raised = "none"
              /\ ~call.result.success
              /\ call.result.invoked = 0
        /\ (i > 1 /\ RejectedBeforeTool(execs[i - 1])) =>
              /\ call.result =
                    ExecuteOutcome(tools, definitions, call.tool_name, call.arguments,
                                   call.result.execution_time_ms, NoBackend).result
              /\ (/\ ~RejectedBeforeTool(call)
                  /\ tools[call.tool_name].variant = "dec_async") => call.result.success

\* A call rejected by input validation, then the same tool called with an
\* int and run successfully.
ExecuteFailureIsLocalWitness ==
    /\ Len(execs) = 2
    /\ execs[1].tool_name = "beta" /\ execs[2].tool_name = "beta"
    /\ tools["beta"].variant = "dec_async"
    /\ execs[1].arguments = [q |-> "str:x"]
    /\ ~execs[1].result.success /\ execs[1].result.invoked = 0
    /\ execs[2].arguments = [q |-> "int:1"]
    /\ execs[2].result.success /\ execs[2].result.invoked = 1

\* The maximal runs of s without a separator character.
TokensOf(s, separators) ==
    {SubSeq(s, p[1], p[2]) :
        p \in {q \in (DOMAIN s) \X (DOMAIN s) :
                  /\ q[1] <= q[2]
                  /\ \A k \in q[1]..q[2] : s[k] \notin separators
                  /\ (q[1] = 1 \/ s[q[1] - 1] \in separators)
                  /\ (q[2] = Len(s) \/ s[q[2] + 1] \in separators)}}

\* The name has a token longer than 3 characters that occurs in the
\* lower-cased URL (names compared without regard to case).
NameOccurs(name, url, separators) ==
    \E t \in TokensOf(Lower(name), separators) : Len(t) > 3 /\ Contains(Lower(url), t)

\* The selection the heuristic is said to make among at least one candidate.
SelectionBy(separators) ==
    LET hits == {i \in DOMAIN sel.names : NameOccurs(sel.names[i], sel.url, separators)} IN
    IF Len(sel.names) = 1 THEN sel.names[1]
    ELSE IF hits # {} THEN sel.names[CHOOSE i \in hits : \A j \in hits : i <= j]
    ELSE sel.names[1]

RECURSIVE PathBroken(_, _)
PathBroken(value, keys) ==
    IF keys = <<>> THEN FALSE
    ELSE IF Head(keys) \notin DOMAIN value.d THEN TRUE
    ELSE IF value.d[Head(keys)].t # "dict" THEN TRUE
    ELSE PathBroken(value.d[Head(keys)], Tail(keys))

\* C27: for a response body that is a JSON object, descending
\* response_path never raises: when a segment is absent, or the value
\* reached is null or not an object, the output is empty and the call
\* succeeds.
DescentNeverRaises ==
    (/\ xf.pc = "done"
     /\ xf.mapping.response_path # StrNone
     /\ PathBroken(xf.response_data, SplitDots(xf.mapping.response_path))) =>
        /\ xf.raised = "none"
        /\ xf.output = <<>>

\* The same when the path breaks at an absent segment or at its last
\* segment.
DescentToAbsentSegment ==
    (/\ xf.pc = "done"
     /\ xf.mapping.response_path # StrNone
     /\ LET keys == SplitDots(xf.mapping.response_path) IN
        /\ PathBroken(xf.response_data, keys)
        /\ \/ Head(keys) \notin DOMAIN xf.response_data.d
           \/ Len(keys) = 1) =>
        /\ xf.raised = "none"
        /\ xf.output = <<>>

\* The last answer of the backend is a response execute builds an envelope
\* from (a 5xx is raised through raise_for_status instead).
AnsweredWithResponse ==
    /\ HttpDone(http)
    /\ http.answers # <<>>
    /\ http.answers[Len(http.answers)].kind = "response"
    /\ ~Is5xx(http.answers[Len(http.answers)])

\* C30: for every backend response execute parses, it returns an envelope
\* and does not raise: status 204 gives body None; otherwise a JSON content
\* type gives the parsed JSON (an object, an array or a scalar) and the raw
\* text when parsing fails; otherwise the raw text if non-empty, else None.
ResponseParsedIntoEnvelope ==
    AnsweredWithResponse =>
        LET answer == http.answers[Len(http.answers)]
        IN /\ http.pc = "returned"
           /\ http.response.status_code = answer.status
           /\ answer.status = 204 => http.response.body = "None"
           /\ (answer.status # 204 /\ answer.body = "json_object") => http.response.body = "dict"
           /\ (answer.status # 204 /\ answer.body = "json_array") => http.response.body = "list"
           /\ (answer.status # 204 /\ answer.body \in {"json_invalid", "text"}) =>
                 http.response.body = "str"
           /\ (answer.status # 204 /\ answer.body = "empty") => http.response.body = "None"

\* The same with the JSON array left out: every other response is returned
\* in an envelope with the body the parsing rules give.
ResponseParsedUnlessArray ==
    (AnsweredWithResponse /\ http.answers[Len(http.answers)].body # "json_array") =>
        /\ http.pc = "returned"
        /\ http.response.body = ParseBody(http.answers[Len(http.answers)])

\* C31: GenericApiTool.execute does not retry: a call never sends more than
\* one request, and a call whose request is built sends exactly one,
\* whatever the backend answers; when the first answer is a 5xx, a timeout
\* or a network failure the call raises although the backend would have
\* answered a second request.
OneRequestPerCall ==
    api.calls > 0 =>
        /\ Len(api.request.sent) <= 1
        /\ api.request.raised \in {"none", "request"} =>
              /\ api.request.sent = <<api.request.script[1]>>
              /\ RetryOn(AttemptException(api.request.script[1].answer)) =>
                    /\ api.request.raised = "request"
                    /\ ~api.request.returned

\* A call got a 5xx for its one request and raised, the backend being ready
\* to answer 200 to a second request.
OneRequestWitness ==
    /\ api.calls > 0
    /\ Len(api.request.script) = 2
    /\ api.request.script[1].answer = Error500
    /\ api.request.script[2].answer = Ok200
    /\ Len(api.request.sent) = 1
    /\ api.request.raised = "request"

NextTasks ==
    \/ \E i \in TaskIds, tool \in ToolObjects : TaskSpawn(i, tool)
    \/ \E i \in TaskIds : TaskResume(i)

SpecTasks == Init /\ [][NextTasks]_vars

\* The tasks that registered a tool named n and have ended.
DoneWith(n) == {i \in TaskIds : tasks[i].pc = "done" /\ tasks[i].tool.name = n}

\* C32: on one event loop, of the tasks that call register with the same
\* name at most one succeeds and every other one raises
\* ToolRegistrationError; once one of them has succeeded the registry holds
\* exactly one entry for the name, the tool of the task that succeeded.
ConcurrentRegisterOneWinner ==
    \A n \in Names :
        LET winners == {i \in DoneWith(n) : tasks[i].raised = "none"} IN
        /\ Cardinality(winners) <= 1
        /\ \A i \in DoneWith(n) \ winners : tasks[i].raised = "ToolRegistrationError"
        /\ (\E i \in DoneWith(n) : Shape(tasks[i].tool) # "other") => winners # {}
        /\ \A i \in winners :
              /\ n \in DOMAIN tools /\ n \in DOMAIN definitions
              /\ tools[n] = tasks[i].tool
              /\ definitions[n] = ToolDefinition(tasks[i].tool)
        /\ winners = {} => n \notin DOMAIN tools

\* Two tasks were suspended at the same time, registered different tools
\* under one name, and one of them lost.
ConcurrentRegisterWitness ==
    \E i, j \in TaskIds :
        /\ i # j
        /\ tasks[i].pc = "done" /\ tasks[j].pc = "done"
        /\ tasks[i].overlapped /\ tasks[j].overlapped
        /\ tasks[i].tool.name = tasks[j].tool.name
        /\ tasks[i].tool # tasks[j].tool
        /\ tasks[i].raised = "none"
        /\ tasks[j].raised = "ToolRegistrationError"
        /\ Shape(tasks[j].tool) # "other"

\* Every operation of the registry, and the executor on it.
NextRegistry ==
    \/ \E tool \in ToolObjects \cup InvalidToolObjects : Register(tool)
    \/ \E tool_name \in RequestNames : Unregister(tool_name)
    \/ Clear
    \/ \E tool_name \in RequestNames : Get(tool_name)
    \/ \E tool_names \in NameLists : GetMultiple(tool_names)
    \/ \E method \in ProjectionMethods, tool_name \in RequestNames : Project(method, tool_name)
    \/ \E tool_name \in RequestNames, arguments \in ApiArguments :
          Execute(tool_name, arguments, 0, NoBackend)

SpecRegistry == Init /\ [][NextRegistry]_vars

\* C33: get, get_definition, get_multiple, list_tools, list_definitions,
\* get_openai_tools, has_tool and ToolExecutor.execute leave the tool map
\* and the definition map as they were; a step that changes either is a
\* register, an unregister or a clear.
LookupsLeaveRegistry ==
    [][/\ op'.name \in ProjectionMethods \cup {"get", "get_multiple", "execute"} =>
            tools' = tools /\ definitions' = definitions
       /\ (tools' # tools \/ definitions' # definitions) =>
            op'.name \in {"register", "unregister", "clear"}
      ]_vars

\* list_definitions returned the definitions of a registry of two tools,
\* which are both still registered.
LookupsLeaveRegistryWitness ==
    /\ op.name = "list_definitions"
    /\ Cardinality(DOMAIN tools) = 2
    /\ lookup.value.definitions = {definitions[n] : n \in DOMAIN definitions}
    /\ Cardinality(lookup.value.definitions) = 2
    /\ DOMAIN definitions = DOMAIN tools

\* C34: after any sequence of register, unregister and clear calls, failed
\* ones included, the tool map and the definition map have the same names
\* and the definition stored under a name carries that name.
RegistryMapsAgree ==
    /\ DOMAIN tools = DOMAIN definitions
    /\ \A n \in DOMAIN definitions : definitions[n].name = n

\* The same for registers of tools whose definition can be built.
RegistryMapsAgreeForValidTools ==
    (\A n \in DOMAIN tools : DefinitionValid(tools[n])) =>
        /\ DOMAIN tools = DOMAIN definitions
        /\ \A n \in DOMAIN definitions : definitions[n].name = n

\* The inputs mapped to the query parameter (body field) called name.
SourcesOf(mapping, name) ==
    {mapping[i][1] : i \in {j \in DOMAIN mapping : mapping[j][2] = name}}

\* A call through the executor that built its request.
BuiltThroughExecutor ==
    /\ op.name = "execute"
    /\ api.calls > 0
    /\ api.request.raised \in {"none", "request"}

\* C35: when a config-backed tool is called through the executor with an
\* optional input omitted, the request carries no query parameter and no
\* body field derived from that input: a parameter none of whose inputs was
\* supplied has its static value or is absent, and a body field none of
\* whose inputs was supplied is absent.
OmittedInputNotSent ==
    BuiltThroughExecutor =>
        LET config == api.config
            supplied == DOMAIN op.arguments
            static == config.params.d
        IN /\ \A i \in DOMAIN config.input_to_params :
                 LET param_name == config.input_to_params[i][2] IN
                 SourcesOf(config.input_to_params, param_name) \cap supplied = {} =>
                    IF param_name \in DOMAIN static
                    THEN /\ param_name \in DOMAIN api.request.params
                         /\ api.request.params[param_name] = static[param_name]
                    ELSE param_name \notin DOMAIN api.request.params
           /\ \A i \in DOMAIN config.input_to_body :
                 LET body_field == config.input_to_body[i][2] IN
                 SourcesOf(config.input_to_body, body_field) \cap supplied = {} =>
                    \/ api.request.body.is_none
                    \/ body_field \notin DOMAIN api.request.body.d

\* The same when every property of the schema is supplied: the request is
\* the one built from the caller's arguments.
SuppliedInputsSent ==
    (BuiltThroughExecutor /\ DOMAIN op.arguments = {"q", "z"}) =>
        /\ api.request.params =
              BuildParams(api.config, op.arguments, EnvAtCall(api)).d
        /\ api.request.body = BuildBody(api.config, op.arguments)

NextEnvelope ==
    \/ \E spec \in RequestSpecs,
          script \in {<<Ok200>>, <<NotFound404>>, <<TimedOut, TimedOut, TimedOut>>} :
          HttpExecuteEnvelope(spec, script)
    \/ EnvelopeForget

SpecEnvelope == Init /\ [][NextEnvelope]_vars

\* C36: HTTPClientService.execute does not modify the request envelope it
\* is given: its headers, query_params and body are the same after the call
\* as before.
EnvelopeNotModified ==
    envelope.called =>
        /\ envelope.after.headers = envelope.before.headers
        /\ envelope.after.query_params = envelope.before.query_params
        /\ envelope.after.body = envelope.before.body

\* The same for every envelope but one with a dict body and non-empty
\* headers that name no content type; and the default is always sent.
EnvelopeNotModifiedUnlessDefaulted ==
    envelope.called =>
        LET spec == envelope.before
            defaulted == /\ spec.body = "dict"
                         /\ ~spec.headers.is_none
                         /\ DOMAIN spec.headers.d # {}
                         /\ StrContentType \notin DOMAIN spec.headers.d
                         /\ StrContentTypeLower \notin DOMAIN spec.headers.d
        IN /\ ~defaulted => envelope.after = spec
           /\ (spec.body = "dict" /\ (spec.headers.is_none \/ DOMAIN spec.headers.d = {})) =>
                 envelope.headers_sent = (StrContentType :> StrApplicationJson)

\* C37: every WorkflowResponse execute_workflow returns has one of two
\* shapes: status 'error' with error and error_stage set and selected_tool,
\* http_spec, raw_response and formatted_response null; or status 'success'
\* with error and error_stage null and selected_tool, http_spec and
\* raw_response set; formatted_response is non-null only if the request
\* asked for formatting.
WorkflowResponseShapes ==
    wf.pc = "done" =>
        LET r == wf.response IN
        \/ /\ r.status = "error"
           /\ r.error # <<>>
           /\ r.error_stage # "None"
           /\ r.selected_tool = "None"
           /\ ~r.http_spec.present
           /\ ~r.raw_response.present
           /\ r.formatted_response = "None"
        \/ /\ r.status = "success"
           /\ r.error = <<>>
           /\ r.error_stage = "None"
           /\ r.selected_tool # "None"
           /\ r.http_spec.present
           /\ r.raw_response.present
           /\ r.formatted_response # "None" => wf.request.format_response

\* A successful response to a request that asked for formatting, without a
\* formatted response: the formatting call failed.
WorkflowResponseShapesWitness ==
    /\ wf.pc = "done"
    /\ wf.response.status = "success"
    /\ wf.request.format_response
    /\ wf.format_answer = "raises"
    /\ wf.response.formatted_response = "None"
    /\ wf.response.raw_response.present

BackendAnswered4xx ==
    /\ wf.pc \in {"done", "propagated"}
    /\ wf.http_result.answers # <<>>
    /\ Is4xx(wf.http_result.answers[1])

\* Every request of the api_execution stage was answered with a 5xx.
BackendPersistent5xx ==
    /\ wf.pc \in {"done", "propagated"}
    /\ wf.http_result.answers # <<>>
    /\ wf.http_result.pc = "raised"
    /\ \A i \in DOMAIN wf.http_result.answers : Is5xx(wf.http_result.answers[i])

\* C39: when the backing API answers the request with a 4xx, the
\* api_execution stage does not fail: execute_workflow returns status
\* 'success' with raw_response.status_code equal to that 4xx; a persistent
\* 5xx yields status 'error' with error_stage 'api_execution'.
ClientErrorIsWorkflowSuccess ==
    /\ BackendAnswered4xx =>
          /\ wf.pc = "done"
          /\ wf.response.status = "success"
          /\ wf.response.raw_response.present
          /\ wf.response.raw_response.status_code = wf.http_result.answers[1].status
    /\ BackendPersistent5xx =>
          /\ wf.pc = "done"
          /\ wf.response.status = "error"
          /\ wf.response.error_stage = "api_execution"

\* The same where the envelope of the 4xx can be built (its body is not a
\* JSON array) and the formatting answer, if any, is a str or a failure.
ClientErrorIsWorkflowSuccessForObjects ==
    /\ (/\ BackendAnswered4xx
        /\ wf.http_result.answers[1].body # "json_array"
        /\ wf.format_answer # "dict"
        /\ wf.pc = "done") =>
          /\ wf.response.status = "success"
          /\ wf.response.raw_response.status_code = wf.http_result.answers[1].status
    /\ BackendPersistent5xx =>
          /\ wf.pc = "done"
          /\ wf.response.status = "error"
          /\ wf.response.error_stage = "api_execution"

\* run received function-call items and has ended.
RunWithToolCallsEnded ==
    /\ ai.method = "run" /\ ~ai.text_format
    /\ ai.tool_calls # <<>>
    /\ ai.pc \in {"returned", "raised"}

\* Every call was executed once, in order: one result per call, under the
\* name of the call, failed when the tool is unknown.
EveryToolCallHasItsResult ==
    /\ ai.pc = "returned"
    /\ Len(ai.tool_results) = Len(ai.tool_calls)
    /\ \A i \in DOMAIN ai.tool_calls :
          /\ ai.tool_results[i].present
          /\ ai.tool_results[i].tool_name = ai.tool_calls[i].name
          /\ ai.tool_calls[i].name \notin DOMAIN tools => ~ai.tool_results[i].success

\* C40: when the LLM response of run contains several function-call items,
\* each is executed exactly once in response order and tool_results holds
\* one entry per call in that order; a call that fails (unknown tool,
\* invalid or unparseable arguments, throwing tool) contributes a failed
\* ToolResult and does not prevent the later calls from being executed.
RunExecutesEveryToolCall ==
    RunWithToolCallsEnded => EveryToolCallHasItsResult

\* The same when the arguments of every call are a dict or parseable JSON.
RunExecutesEveryParseableToolCall ==
    (RunWithToolCallsEnded /\ \A i \in DOMAIN ai.tool_calls : ai.tool_calls[i].valid_json) =>
        EveryToolCallHasItsResult

====
